---- MODULE Spec2Model ----
(***************************************************************************)
(* Model of the store-facing layer of the assembly installer:              *)
(* AssemblyAPI (src/src/lib/api.ts) acting on the five tables declared in  *)
(* src/supabase-schema.sql.  Every store statement (upsert, insert,        *)
(* delete) is one atomic step; a call that awaits two statements takes two *)
(* steps.  One mutating call is in flight at a time.  The columns          *)
(* created_at and timestamp, which the store fills in and no operation     *)
(* reads, and the numeric columns weight, length and tekla_data are not    *)
(* part of the rows.                                                       *)
(***************************************************************************)
EXTENDS Integers, Sequences, FiniteSets, TLC

VARIABLES
  assembly_parts,  \* set of rows of table assembly_parts
  installations,   \* set of rows of table installations
  deliveries,      \* set of rows of table deliveries
  boltings,        \* set of rows of table boltings
  part_logs,       \* sequence of rows of table part_logs, in insertion order
  now,             \* the clock read by new Date() and NOW()
  pc,              \* "idle", or "logs": a call awaits its part_logs insert
  call,            \* arguments of the call in flight, or of the last call
  outcome,         \* of that call: "none", "pending", "ok" (resolved), "throw" (rejected)
  logError,        \* whether the part_logs insert of that call was rejected
  prev,            \* the call before that one, and its outcome
  ncalls,          \* number of mutating API calls made so far
  read,            \* the read call in flight, or the last one, and what it returned
  app              \* the App side: the viewer object at hand and what was resolved from it

tables == <<assembly_parts, installations, deliveries, boltings, part_logs>>
vars == <<assembly_parts, installations, deliveries, boltings, part_logs,
          now, pc, call, outcome, logError, prev, ncalls, read, app>>

(***************************************************************************)
(* Bounds of the model.                                                    *)
(***************************************************************************)
MaxCalls == 2
MaxClock == 1

(***************************************************************************)
(* JavaScript values. Strings stand for themselves; Null stands for null   *)
(* and undefined (an absent property).                                     *)
(***************************************************************************)
Null == "<null>"
\* the number 0 and the boolean false among string values
Zero == "<0>"
False == "<false>"

\* a falsy operand of ||
Falsy(v) == v \in {"", Null, Zero, False}

\* a || b
Or(a, b) == IF Falsy(a) THEN b ELSE a

Range(s) == {s[i] : i \in 1..Len(s)}

\* ids.length differs from the number of distinct ids
HasDuplicates(s) == \E i, j \in 1..Len(s) : i # j /\ s[i] = s[j]

\* gen_random_uuid(): an id no row of the table holds
FreshId(rows) == CHOOSE i \in 1..(Cardinality(rows) + 1) : \A r \in rows : r.id # i

(***************************************************************************)
(* parseNumber. Strings are read character by character, as parseFloat     *)
(* reads them; a number is a decimal: a signed mantissa m and a count s of  *)
(* decimal places, with no trailing zero among the places.                 *)
(***************************************************************************)
\* the character at place i of a string, or nothing beyond its end
CharAt(s, i) == IF i \in 1..Len(s) THEN SubSeq(s, i, i) ELSE ""
CharsOf(s) == {CharAt(s, i) : i \in 1..Len(s)}
Digits == CharsOf("0123456789")

NullValue == [t |-> "null"]
NaN == [t |-> "NaN"]
Infinity(negative) == [t |-> "Infinity", negative |-> negative]

RECURSIVE Pow10(_)
Pow10(n) == IF n <= 0 THEN 1 ELSE 10 * Pow10(n - 1)

RECURSIVE Decimal(_, _)
Decimal(m, s) ==
  IF m = 0 THEN [t |-> "number", m |-> 0, s |-> 0]
  ELSE IF s < 0 THEN [t |-> "number", m |-> m * Pow10(0 - s), s |-> 0]
  ELSE IF s > 0 /\ m % 10 = 0 THEN Decimal(m \div 10, s - 1)
  ELSE [t |-> "number", m |-> m, s |-> s]

\* the value of a run of decimal digits
RECURSIVE DigitsValue(_)
DigitsValue(s) ==
  IF s = "" THEN 0
  ELSE 10 * DigitsValue(SubSeq(s, 1, Len(s) - 1))
       + (CHOOSE d \in 0..9 : CharAt("0123456789", d + 1) = CharAt(s, Len(s)))

\* the place after the run of digits that starts at place i
RECURSIVE DigitsEnd(_, _)
DigitsEnd(s, i) == IF CharAt(s, i) \in Digits THEN DigitsEnd(s, i + 1) ELSE i

\* the place of the first character that is not white space
RECURSIVE SkipWhiteSpace(_, _)
SkipWhiteSpace(s, i) ==
  IF CharAt(s, i) \in {" ", "\t", "\n", "\r"} THEN SkipWhiteSpace(s, i + 1) ELSE i

\* String(value) of a property value
Text(value) == IF value = Zero THEN "0" ELSE IF value = False THEN "false" ELSE value

\* parseFloat(string): the longest prefix, after leading white space, that is
\* a decimal literal: sign, Infinity or digits with a point, exponent. Each
\* operator reads one part of the literal and hands the places it found on.
\* the number, from the end c of the digits of an exponent that starts at j
parseFloatValue(string, negative, i, a, b, j, c) ==
  IF Len(string) >= i + 7 /\ SubSeq(string, i, i + 7) = "Infinity" THEN Infinity(negative)
  ELSE IF a = i /\ b <= a + 1 THEN NaN
  ELSE Decimal((IF negative THEN -1 ELSE 1)
                 * DigitsValue(SubSeq(string, i, a - 1) \o SubSeq(string, a + 1, b - 1)),
               (IF b > a THEN b - a - 1 ELSE 0)
                 - (IF CharAt(string, b) \in {"e", "E"} /\ c > j
                    THEN (IF CharAt(string, b + 1) = "-" THEN -1 ELSE 1)
                         * DigitsValue(SubSeq(string, j, c - 1))
                    ELSE 0))

\* the exponent, from the place j of its first digit
parseFloatExponent(string, negative, i, a, b, j) ==
  parseFloatValue(string, negative, i, a, b, j, DigitsEnd(string, j))

\* the decimal places, from the end a of the whole digits to their end b
parseFloatPlaces(string, negative, i, a, b) ==
  parseFloatExponent(string, negative, i, a, b,
                     IF CharAt(string, b + 1) \in {"+", "-"} THEN b + 2 ELSE b + 1)

\* the whole digits, from their first place i to their end a
parseFloatWhole(string, negative, i, a) ==
  parseFloatPlaces(string, negative, i, a,
                   IF CharAt(string, a) = "." THEN DigitsEnd(string, a + 1) ELSE a)

\* the sign, at the first place start that is no white space
parseFloatSigned(string, start, i) ==
  parseFloatWhole(string, CharAt(string, start) = "-", i, DigitsEnd(string, i))

parseFloatFrom(string, start) ==
  parseFloatSigned(string, start,
                   IF CharAt(string, start) \in {"+", "-"} THEN start + 1 ELSE start)

parseFloat(string) == parseFloatFrom(string, SkipWhiteSpace(string, 1))

\* a parseNumber that gives 0 where nothing parses
ZeroIfNaN(num) == IF num = NaN THEN Decimal(0, 0) ELSE num
parseNumber_Zero(value) ==
  IF value \in {Null, ""} THEN Decimal(0, 0) ELSE ZeroIfNaN(parseFloat(Text(value)))

\* return isNaN(num) ? null : num
NullIfNaN(num) == IF num = NaN THEN NullValue ELSE num

\* private static parseNumber(value: any): number | null
parseNumber(value) ==
  IF value \in {Null, ""} THEN NullValue ELSE NullIfNaN(parseFloat(Text(value)))

(***************************************************************************)
(* syncParts: the row built for one part.                                  *)
(***************************************************************************)
PropKeys == {"Project", "ModelId", "FileName", "Mark", "Name", "Type",
             "Tekla_Assembly.Cast_unit_Mark", "Tekla_Assembly.Cast_unit_type",
             "Tekla_Assembly.Assembly", "Assembly", "Assembly Code",
             "Phase", "Assembly Phase", "Profile", "Section", "Material", "Grade",
             "Tekla_Assembly.Cast_unit_weight", "Weight", "Length",
             "Tekla_Assembly.Cast_unit_position_code",
             "Tekla_Assembly.Cast_unit_rebar_weight",
             "Tekla_Assembly.Cast_unit_bottom_elevation",
             "Tekla_Assembly.Cast_unit_top_elevation",
             "Finish", "GUID_MS"}

\* a property bag holding the given entries and nothing else
Props(entries) == [k \in PropKeys |-> IF k \in DOMAIN entries THEN entries[k] ELSE Null]

\* const teklaData = {...}
teklaData(props) ==
  [ position_code |-> Or(props["Tekla_Assembly.Cast_unit_position_code"], Null),
    rebar_weight |-> parseNumber(props["Tekla_Assembly.Cast_unit_rebar_weight"]),
    bottom_elevation |-> parseNumber(props["Tekla_Assembly.Cast_unit_bottom_elevation"]),
    top_elevation |-> parseNumber(props["Tekla_Assembly.Cast_unit_top_elevation"]),
    cast_unit_type |-> Or(props["Tekla_Assembly.Cast_unit_type"], Null) ]

\* Object.values(teklaData).some(v => v !== null)
hasTeklaData(data) ==
  \/ data.position_code # Null
  \/ data.rebar_weight # NullValue
  \/ data.bottom_elevation # NullValue
  \/ data.top_elevation # NullValue
  \/ data.cast_unit_type # Null

\* tekla_data: hasTeklaData ? teklaData : null
TeklaColumn(data) == IF hasTeklaData(data) THEN [t |-> "object", fields |-> data] ELSE NullValue

partsToUpsert(projectId, projectName, modelId, modelName, p, t) ==
  LET props == p.properties IN
  [ guid         |-> p.guid,
    project_id   |-> projectId,
    project_name |-> Or(props["Project"], projectName),
    model_id     |-> Or(props["ModelId"], modelId),
    model_name   |-> Or(props["FileName"], modelName),
    file_name    |-> Or(props["FileName"], modelName),
    object_id    |-> p.objectId,
    mark         |-> Or(props["Tekla_Assembly.Cast_unit_Mark"],
                        Or(props["Mark"], Or(props["Name"], "N/A"))),
    name         |-> Or(props["Name"], Or(props["Tekla_Assembly.Cast_unit_Mark"], Null)),
    type         |-> Or(props["Type"], Or(props["Tekla_Assembly.Cast_unit_type"], "Unknown")),
    assembly     |-> Or(props["Tekla_Assembly.Assembly"],
                        Or(props["Assembly"], Or(props["Assembly Code"], Null))),
    phase        |-> Or(props["Phase"], Or(props["Assembly Phase"], Null)),
    profile      |-> Or(props["Profile"], Or(props["Section"], Null)),
    material     |-> Or(props["Material"], Or(props["Grade"], Null)),
    weight       |-> parseNumber(Or(props["Tekla_Assembly.Cast_unit_weight"], props["Weight"])),
    length       |-> parseNumber(props["Length"]),
    tekla_data   |-> TeklaColumn(teklaData(props)),
    updated_at   |-> t ]

(***************************************************************************)
(* The store. A statement either is rejected as a whole and changes        *)
(* nothing, or is applied as a whole.                                      *)
(***************************************************************************)
Accepted(rows) == [ok |-> TRUE, rows |-> rows]
Rejected(rows) == [ok |-> FALSE, rows |-> rows]

\* CONSTRAINT unique_part UNIQUE(project_id, model_id, object_id)
unique_part(rows) ==
  \A a, b \in rows :
    (a.project_id = b.project_id /\ a.model_id = b.model_id /\ a.object_id = b.object_id)
      => a = b

\* a store that replaces the row holding the guid by a newly inserted one
UpsertPartRow_Replace(rows, new) ==
  LET hit == {r \in rows : r.guid = new.guid} IN
  (rows \ hit) \cup {[id |-> FreshId(rows)] @@ new}

\* one row of .upsert(partsToUpsert, { onConflict: 'guid' }): the row holding the
\* guid takes every column sent (it keeps its id), a guid not yet held is inserted.
\* The statement names guid as its conflict key, which the store accepts only with
\* a unique index on guid: that index is taken to exist, beside unique_part, though
\* src/supabase-schema.sql does not declare it. The trigger
\* update_assembly_parts_updated_at sets updated_at to NOW() on an update, the
\* time the row sent carries already.
UpsertPartRow(rows, new) ==
  LET hit == {r \in rows : r.guid = new.guid} IN
  IF hit = {}
  THEN rows \cup {[id |-> FreshId(rows)] @@ new}
  ELSE (rows \ hit) \cup {[id |-> r.id] @@ new : r \in hit}

\* the rows of the batch are applied in order, each checked against unique_part
RECURSIVE UpsertPartRows(_, _, _)
UpsertPartRows(rows, batch, i) ==
  IF i > Len(batch) THEN Accepted(rows)
  ELSE LET next == UpsertPartRow(rows, batch[i]) IN
       IF unique_part(next) THEN UpsertPartRows(next, batch, i + 1)
       ELSE Rejected(rows)

\* supabase.from('assembly_parts').upsert(batch, { onConflict: 'guid' }); a batch
\* that names one guid twice would update a row a second time and is rejected
UpsertParts(rows, batch) ==
  IF HasDuplicates([i \in 1..Len(batch) |-> batch[i].guid]) THEN Rejected(rows)
  ELSE LET r == UpsertPartRows(rows, batch, 1) IN
       IF r.ok THEN r ELSE Rejected(rows)

\* the ids of the rows of assembly_parts: what part_id REFERENCES
PartIdsOf(parts) == {p.id : p \in parts}

\* part_id UUID NOT NULL REFERENCES assembly_parts(id)
ForeignKeyOk(batch, parts) ==
  \A i \in 1..Len(batch) : batch[i].part_id \in PartIdsOf(parts)

\* a store that inserts every row sent, whether or not the part owns one
UpsertStatusRow_Insert(rows, new) ==
  rows \cup {[id |-> FreshId(rows)] @@ new}

\* a store that keeps the row a part owns and drops the one sent
UpsertStatusRow_KeepOld(rows, new) ==
  LET hit == {r \in rows : r.part_id = new.part_id} IN
  IF hit = {}
  THEN rows \cup {[id |-> FreshId(rows)] @@ new}
  ELSE rows

\* one row of .upsert(rows, { onConflict: 'part_id' }): the row owned by the part
\* takes every column sent (it keeps its id), a part owning none gets a new row
UpsertStatusRow(rows, new) ==
  LET hit == {r \in rows : r.part_id = new.part_id} IN
  IF hit = {}
  THEN rows \cup {[id |-> FreshId(rows)] @@ new}
  ELSE (rows \ hit) \cup {[id |-> r.id] @@ new : r \in hit}

RECURSIVE UpsertStatusRows(_, _, _)
UpsertStatusRows(rows, batch, i) ==
  IF i > Len(batch) THEN rows
  ELSE UpsertStatusRows(UpsertStatusRow(rows, batch[i]), batch, i + 1)

\* supabase.from(<status table>).upsert(batch, { onConflict: 'part_id' })
\* an upsert that is applied row by row and stops after its first row
UpsertStatus_FirstRowOnly(rows, batch, parts) ==
  IF Len(batch) = 0 THEN Accepted(rows) ELSE Accepted(UpsertStatusRow(rows, batch[1]))

UpsertStatus(rows, batch, parts) ==
  IF ~ForeignKeyOk(batch, parts) THEN Rejected(rows)
  ELSE IF HasDuplicates([i \in 1..Len(batch) |-> batch[i].part_id]) THEN Rejected(rows)
  ELSE Accepted(UpsertStatusRows(rows, batch, 1))

\* a delete that lost its filter on part_id
DeleteStatus_All(rows, partIds) == {}

\* supabase.from(table).delete().in('part_id', partIds)
DeleteStatus(rows, partIds) == {r \in rows : r.part_id \notin Range(partIds)}

\* an insert that replaces the rows of part_logs by the rows sent
InsertLogs_Replacing(rows, logs, parts) ==
  IF ForeignKeyOk(logs, parts) THEN Accepted(logs) ELSE Rejected(rows)

\* supabase.from('part_logs').insert(logs)
InsertLogs(rows, logs, parts) ==
  IF ForeignKeyOk(logs, parts) THEN Accepted(rows \o logs) ELSE Rejected(rows)

(***************************************************************************)
(* Inputs.                                                                 *)
(***************************************************************************)
ProjectId == "p1"
ProjectName == "Project"
ModelId == "m1"
ModelName == "model.ifc"
BagMark == Props([Mark |-> "B-1"])
BagName == Props([Name |-> "Beam", ModelId |-> "m2"])
Part(objectId, guid, properties) ==
  [objectId |-> objectId, guid |-> guid, properties |-> properties]
\* the batches of resolved parts a selection can give: none, one part, the same
\* guid under another object id or with other properties, another guid on the
\* same object id, two parts, two parts on one object id, one guid twice
Batches == { <<>>,
             <<Part("o1", "gA", BagMark)>>,
             <<Part("o2", "gA", BagMark)>>,
             <<Part("o1", "gA", BagName)>>,
             <<Part("o1", "gB", BagMark)>>,
             <<Part("o1", "gA", BagMark), Part("o2", "gB", BagMark)>>,
             <<Part("o2", "gA", BagMark), Part("o1", "gB", BagMark)>>,
             <<Part("o1", "gA", BagMark), Part("o1", "gB", BagMark)>>,
             <<Part("o1", "gA", BagMark), Part("o2", "gA", BagName)>> }

NoCall == [op |-> "none"]
NoRead == [op |-> "none", pc |-> "idle"]
NoApp == [op |-> "none"]

(***************************************************************************)
(* AssemblyAPI.syncParts                                                   *)
(***************************************************************************)
syncParts(projectId, projectName, modelId, modelName, parts, t, storeOk) ==
  /\ pc = "idle"
  /\ ncalls < MaxCalls
  /\ ncalls' = ncalls + 1
  /\ call' = [op |-> "syncParts", projectId |-> projectId, modelId |-> modelId,
              parts |-> parts, at |-> t, storeOk |-> storeOk]
  /\ prev' = [call |-> call, outcome |-> outcome]
  /\ logError' = FALSE
  /\ pc' = "idle"
  /\ IF Len(parts) = 0
     THEN outcome' = "ok" /\ UNCHANGED <<assembly_parts, now>>
     ELSE LET batch == [i \in 1..Len(parts) |->
                          partsToUpsert(projectId, projectName, modelId, modelName,
                                        parts[i], t)]
              r == UpsertParts(assembly_parts, batch)
          IN /\ now' = t
             /\ IF storeOk /\ r.ok
                THEN assembly_parts' = r.rows /\ outcome' = "ok"
                ELSE outcome' = "throw" /\ UNCHANGED assembly_parts
  /\ UNCHANGED <<installations, deliveries, boltings, part_logs, read, app>>

(***************************************************************************)
(* The status operations. Each first awaits its primary statement and, if  *)
(* that was accepted, is left at pc = "logs" awaiting the part_logs insert.*)
(***************************************************************************)
\* a check for a missing list that lets an empty one pass
NoParts_MissingOnly(given, partIds) == ~given

\* !partIds || partIds.length === 0
NoParts(given, partIds) == ~given \/ Len(partIds) = 0

\* throw new Error(...): the call rejects, no statement is sent
Throw ==
  /\ outcome' = "throw"
  /\ pc' = "idle"
  /\ UNCHANGED <<installations, deliveries, boltings>>

\* the primary statement was accepted: go on to the logs
Proceed ==
  /\ outcome' = "pending"
  /\ pc' = "logs"

saveInstallationBody(given, partIds, data, userName, storeOk) ==
  IF NoParts(given, partIds) THEN Throw
  ELSE IF Len(data.installers) = 0 THEN Throw
  ELSE IF Falsy(data.date) THEN Throw
  ELSE IF Falsy(data.method) THEN Throw
  ELSE LET rows == [i \in 1..Len(partIds) |->
                      [part_id |-> partIds[i], installers |-> data.installers,
                       date |-> data.date, method |-> data.method,
                       created_by |-> userName]]
           r == UpsertStatus(installations, rows, assembly_parts)
       IN IF storeOk /\ r.ok
          THEN installations' = r.rows /\ UNCHANGED <<deliveries, boltings>> /\ Proceed
          ELSE Throw

\* saveDelivery without its check of the date
saveDeliveryBody_NoDateCheck(given, partIds, data, userName, storeOk) ==
  IF NoParts(given, partIds) THEN Throw
  ELSE IF Falsy(data.vehicle) THEN Throw
  ELSE LET rows == [i \in 1..Len(partIds) |->
                      [part_id |-> partIds[i], vehicle |-> data.vehicle,
                       date |-> data.date,
                       arrival_time |-> Or(data.arrivalTime, Null),
                       unloading_time |-> Or(data.unloadingTime, Null),
                       created_by |-> userName]]
           r == UpsertStatus(deliveries, rows, assembly_parts)
       IN IF storeOk /\ r.ok
          THEN deliveries' = r.rows /\ UNCHANGED <<installations, boltings>> /\ Proceed
          ELSE Throw

saveDeliveryBody(given, partIds, data, userName, storeOk) ==
  IF NoParts(given, partIds) THEN Throw
  ELSE IF Falsy(data.vehicle) THEN Throw
  ELSE IF Falsy(data.date) THEN Throw
  ELSE LET rows == [i \in 1..Len(partIds) |->
                      [part_id |-> partIds[i], vehicle |-> data.vehicle,
                       date |-> data.date,
                       arrival_time |-> Or(data.arrivalTime, Null),
                       unloading_time |-> Or(data.unloadingTime, Null),
                       created_by |-> userName]]
           r == UpsertStatus(deliveries, rows, assembly_parts)
       IN IF storeOk /\ r.ok
          THEN deliveries' = r.rows /\ UNCHANGED <<installations, boltings>> /\ Proceed
          ELSE Throw

\* saveBolting going on to the logs although the upsert was rejected
saveBoltingBody_ErrorIgnored(given, partIds, data, userName, storeOk) ==
  IF NoParts(given, partIds) THEN Throw
  ELSE IF Falsy(data.installer) THEN Throw
  ELSE IF Falsy(data.date) THEN Throw
  ELSE LET rows == [i \in 1..Len(partIds) |->
                      [part_id |-> partIds[i], installer |-> data.installer,
                       date |-> data.date, created_by |-> userName]]
           r == UpsertStatus(boltings, rows, assembly_parts)
       IN IF storeOk /\ r.ok
          THEN boltings' = r.rows /\ UNCHANGED <<installations, deliveries>> /\ Proceed
          ELSE UNCHANGED <<installations, deliveries, boltings>> /\ Proceed

saveBoltingBody(given, partIds, data, userName, storeOk) ==
  IF NoParts(given, partIds) THEN Throw
  ELSE IF Falsy(data.installer) THEN Throw
  ELSE IF Falsy(data.date) THEN Throw
  ELSE LET rows == [i \in 1..Len(partIds) |->
                      [part_id |-> partIds[i], installer |-> data.installer,
                       date |-> data.date, created_by |-> userName]]
           r == UpsertStatus(boltings, rows, assembly_parts)
       IN IF storeOk /\ r.ok
          THEN boltings' = r.rows /\ UNCHANGED <<installations, deliveries>> /\ Proceed
          ELSE Throw

\* a call is entered: its arguments, and whether the store is going to accept
\* its primary statement if no constraint forbids it
Enter(op, given, partIds, mode, data, userName, storeOk) ==
  /\ pc = "idle"
  /\ ncalls < MaxCalls
  /\ ncalls' = ncalls + 1
  /\ call' = [op |-> op, given |-> given, partIds |-> partIds, mode |-> mode,
              data |-> data, userName |-> userName, storeOk |-> storeOk]
  /\ prev' = [call |-> call, outcome |-> outcome]
  /\ logError' = FALSE
  /\ UNCHANGED <<assembly_parts, part_logs, now, read, app>>

saveInstallation(given, partIds, data, userName, storeOk) ==
  /\ Enter("saveInstallation", given, partIds, "installation", data, userName, storeOk)
  /\ saveInstallationBody(given, partIds, data, userName, storeOk)

saveDelivery(given, partIds, data, userName, storeOk) ==
  /\ Enter("saveDelivery", given, partIds, "delivery", data, userName, storeOk)
  /\ saveDeliveryBody(given, partIds, data, userName, storeOk)

saveBolting(given, partIds, data, userName, storeOk) ==
  /\ Enter("saveBolting", given, partIds, "bolts", data, userName, storeOk)
  /\ saveBoltingBody(given, partIds, data, userName, storeOk)

\* a mode outside the switch falls through it: nothing is written, the call resolves
bulkUpdate(given, partIds, mode, data, userName, storeOk) ==
  /\ Enter("bulkUpdate", given, partIds, mode, data, userName, storeOk)
  /\ IF NoParts(given, partIds) THEN Throw
     ELSE CASE mode = "installation" ->
                 saveInstallationBody(given, partIds, data, userName, storeOk)
            [] mode = "delivery" ->
                 saveDeliveryBody(given, partIds, data, userName, storeOk)
            [] mode = "bolts" ->
                 saveBoltingBody(given, partIds, data, userName, storeOk)
            [] OTHER ->
                 /\ outcome' = "ok"
                 /\ pc' = "idle"
                 /\ UNCHANGED <<installations, deliveries, boltings>>

\* deleteData going on to the logs although the delete was rejected
deleteData_ErrorIgnored(given, partIds, mode, userName, storeOk) ==
  /\ Enter("deleteData", given, partIds, mode, Null, userName, storeOk)
  /\ IF NoParts(given, partIds) THEN Throw
     ELSE IF mode \notin {"installation", "delivery", "bolts"} THEN Throw
     ELSE /\ installations' = IF mode = "installation" /\ storeOk
                              THEN DeleteStatus(installations, partIds)
                              ELSE installations
          /\ deliveries' = IF mode = "delivery" /\ storeOk
                           THEN DeleteStatus(deliveries, partIds)
                           ELSE deliveries
          /\ boltings' = IF mode = "bolts" /\ storeOk
                         THEN DeleteStatus(boltings, partIds)
                         ELSE boltings
          /\ Proceed

deleteData(given, partIds, mode, userName, storeOk) ==
  /\ Enter("deleteData", given, partIds, mode, Null, userName, storeOk)
  /\ IF NoParts(given, partIds) THEN Throw
     ELSE IF mode \notin {"installation", "delivery", "bolts"} THEN Throw
     ELSE IF ~storeOk THEN Throw
     ELSE /\ installations' = IF mode = "installation"
                              THEN DeleteStatus(installations, partIds)
                              ELSE installations
          /\ deliveries' = IF mode = "delivery"
                           THEN DeleteStatus(deliveries, partIds)
                           ELSE deliveries
          /\ boltings' = IF mode = "bolts"
                         THEN DeleteStatus(boltings, partIds)
                         ELSE boltings
          /\ Proceed

\* the action text of the log rows of a call
LogAction(c) ==
  IF c.op = "deleteData"
  THEN CASE c.mode = "installation" -> <<"Eemaldati paigaldusest">>
         [] c.mode = "delivery" -> <<"Eemaldati tarnest">>
         [] c.mode = "bolts" -> <<"Eemaldati poltide nimekirjast">>
  ELSE CASE c.mode = "installation" -> <<"Paigaldatud", c.data.method, c.data.installers>>
         [] c.mode = "delivery" -> <<"Tarnitud", c.data.vehicle>>
         [] c.mode = "bolts" -> <<"Poldid pingutatud", c.data.installer>>

\* const logs = partIds.map(partId => ({ part_id, action, user_name }))
LogRows(c) ==
  [i \in 1..Len(c.partIds) |->
     [part_id |-> c.partIds[i], action |-> LogAction(c), user_name |-> c.userName]]

\* a part_logs insert whose rejection is thrown to the caller
writeLogs_Throwing(storeOk) ==
  /\ pc = "logs"
  /\ LET r == InsertLogs(part_logs, LogRows(call), assembly_parts)
     IN IF storeOk /\ r.ok
        THEN part_logs' = r.rows /\ logError' = FALSE /\ outcome' = "ok"
        ELSE part_logs' = part_logs /\ logError' = TRUE /\ outcome' = "throw"
  /\ pc' = "idle"
  /\ UNCHANGED <<assembly_parts, installations, deliveries, boltings, now, call, prev,
                 ncalls, read, app>>

\* await supabase.from('part_logs').insert(logs): a rejected insert is reported on
\* the console only, the call resolves either way
writeLogs(storeOk) ==
  /\ pc = "logs"
  /\ LET r == InsertLogs(part_logs, LogRows(call), assembly_parts)
     IN IF storeOk /\ r.ok
        THEN part_logs' = r.rows /\ logError' = FALSE
        ELSE part_logs' = part_logs /\ logError' = TRUE
  /\ pc' = "idle"
  /\ outcome' = "ok"
  /\ UNCHANGED <<assembly_parts, installations, deliveries, boltings, now, call, prev,
                 ncalls, read, app>>

(***************************************************************************)
(* Inputs of the status operations.                                        *)
(***************************************************************************)
Target(given, partIds) == [given |-> given, partIds |-> partIds]
\* part ids that reach the store and are accepted by it
GoodTargets == {Target(TRUE, <<1>>), Target(TRUE, <<1, 2>>)}
\* no list, an empty list, one id twice, an id no part holds
BadTargets == {Target(FALSE, <<>>), Target(TRUE, <<>>), Target(TRUE, <<1, 1>>),
               Target(TRUE, <<3>>)}

Input(target, data, userName, storeOk) ==
  [given |-> target.given, partIds |-> target.partIds, data |-> data,
   userName |-> userName, storeOk |-> storeOk]

\* the calls of one save operation: two valid payloads, each by its own user, with
\* the store accepting or rejecting; the bad targets; the payloads missing a field
SaveInputs(dataA, dataB, invalid) ==
  {Input(t, dataA, "u1", ok) : t \in GoodTargets, ok \in BOOLEAN}
    \cup {Input(t, dataB, "u2", TRUE) : t \in GoodTargets}
    \cup {Input(t, dataA, "u1", TRUE) : t \in BadTargets}
    \cup {Input(Target(TRUE, <<1, 2>>), d, "u1", TRUE) : d \in invalid}

InstallationA == [installers |-> <<"Ann">>, date |-> "d1", method |-> "crane"]
InstallationB == [installers |-> <<"Ann", "Bo">>, date |-> "d2", method |-> "manual"]
InstallationInvalid == { [InstallationA EXCEPT !.installers = <<>>],
                         [InstallationA EXCEPT !.date = ""],
                         [InstallationA EXCEPT !.method = ""] }

DeliveryA == [vehicle |-> "truck", date |-> "d1", arrivalTime |-> "08:00",
              unloadingTime |-> "09:00"]
DeliveryB == [vehicle |-> "van", date |-> "d2", arrivalTime |-> Null,
              unloadingTime |-> ""]
DeliveryInvalid == { [DeliveryA EXCEPT !.vehicle = ""],
                     [DeliveryA EXCEPT !.date = Null] }

BoltingA == [installer |-> "Ann", date |-> "d1"]
BoltingB == [installer |-> "Bo", date |-> "d2"]
BoltingInvalid == { [BoltingA EXCEPT !.installer = ""],
                    [BoltingA EXCEPT !.date = ""] }

Modes == {"installation", "delivery", "bolts"}

\* bulkUpdate: per mode one valid payload, one missing a field, a bad target; and
\* a mode outside the switch
BulkInputs ==
  {[mode |-> "installation", in |-> i] :
     i \in {Input(Target(TRUE, <<1, 2>>), InstallationB, "u2", TRUE),
            Input(Target(TRUE, <<1, 2>>), [InstallationA EXCEPT !.date = ""], "u1", TRUE),
            Input(Target(TRUE, <<>>), InstallationA, "u1", TRUE)}}
    \cup {[mode |-> "delivery", in |-> i] :
     i \in {Input(Target(TRUE, <<1, 2>>), DeliveryB, "u2", TRUE),
            Input(Target(TRUE, <<1, 2>>), [DeliveryA EXCEPT !.vehicle = ""], "u1", TRUE),
            Input(Target(FALSE, <<>>), DeliveryA, "u1", TRUE)}}
    \cup {[mode |-> "bolts", in |-> i] :
     i \in {Input(Target(TRUE, <<1, 2>>), BoltingB, "u2", TRUE),
            Input(Target(TRUE, <<1, 2>>), [BoltingA EXCEPT !.installer = ""], "u1", TRUE),
            Input(Target(TRUE, <<>>), BoltingA, "u1", TRUE)}}
    \cup {[mode |-> "other", in |-> Input(Target(TRUE, <<1>>), BoltingA, "u1", TRUE)]}

\* deleteData: every mode on the good targets and on an id no part holds, the
\* store accepting or rejecting; the empty targets; a mode outside the switch
DeleteInputs ==
  {[mode |-> m, in |-> Input(t, Null, "u1", ok)] :
     m \in Modes, t \in GoodTargets, ok \in BOOLEAN}
    \cup {[mode |-> m, in |-> Input(Target(TRUE, <<3>>), Null, "u2", TRUE)] : m \in Modes}
    \cup {[mode |-> "installation", in |-> Input(t, Null, "u1", TRUE)] :
            t \in {Target(FALSE, <<>>), Target(TRUE, <<>>)}}
    \cup {[mode |-> "other", in |-> Input(Target(TRUE, <<1, 2>>), Null, "u1", TRUE)]}

(***************************************************************************)
(* The stores a session starts from: an empty one, and one in which two    *)
(* parts were synced, both installed and the first one delivered.          *)
(***************************************************************************)
SeedParts ==
  UpsertParts({}, [i \in 1..2 |->
    partsToUpsert(ProjectId, ProjectName, ModelId, ModelName,
                  <<Part("o1", "gA", BagMark), Part("o2", "gB", BagMark)>>[i], 0)]).rows

SeedInstallationCall ==
  [op |-> "saveInstallation", given |-> TRUE, partIds |-> <<1, 2>>,
   mode |-> "installation", data |-> InstallationA, userName |-> "u1",
   storeOk |-> TRUE]

SeedDeliveryCall ==
  [op |-> "saveDelivery", given |-> TRUE, partIds |-> <<1>>,
   mode |-> "delivery", data |-> DeliveryA, userName |-> "u1", storeOk |-> TRUE]

SeedInstallations ==
  UpsertStatus({}, [i \in 1..2 |->
    [part_id |-> i, installers |-> InstallationA.installers, date |-> InstallationA.date,
     method |-> InstallationA.method, created_by |-> "u1"]], SeedParts).rows

SeedDeliveries ==
  UpsertStatus({}, <<[part_id |-> 1, vehicle |-> DeliveryA.vehicle, date |-> DeliveryA.date,
                      arrival_time |-> DeliveryA.arrivalTime,
                      unloading_time |-> DeliveryA.unloadingTime,
                      created_by |-> "u1"]>>, SeedParts).rows

SeedLogs == LogRows(SeedInstallationCall) \o LogRows(SeedDeliveryCall)

Init ==
  /\ \/ /\ assembly_parts = {}
        /\ installations = {}
        /\ deliveries = {}
        /\ part_logs = <<>>
     \/ /\ assembly_parts = SeedParts
        /\ installations = SeedInstallations
        /\ deliveries = SeedDeliveries
        /\ part_logs = SeedLogs
  /\ boltings = {}
  /\ now = 0
  /\ pc = "idle"
  /\ call = NoCall
  /\ outcome = "none"
  /\ logError = FALSE
  /\ prev = [call |-> NoCall, outcome |-> "none"]
  /\ ncalls = 0
  /\ read = NoRead
  /\ app = NoApp

Min(a, b) == IF a < b THEN a ELSE b

\* the clock does not run backwards; a call reads the time of now or a later one
SyncStep ==
  \E parts \in Batches, t \in now..Min(now + 1, MaxClock), storeOk \in BOOLEAN :
    syncParts(ProjectId, ProjectName, ModelId, ModelName, parts, t, storeOk)

InstallationStep ==
  \E i \in SaveInputs(InstallationA, InstallationB, InstallationInvalid) :
    saveInstallation(i.given, i.partIds, i.data, i.userName, i.storeOk)

DeliveryStep ==
  \E i \in SaveInputs(DeliveryA, DeliveryB, DeliveryInvalid) :
    saveDelivery(i.given, i.partIds, i.data, i.userName, i.storeOk)

BoltingStep ==
  \E i \in SaveInputs(BoltingA, BoltingB, BoltingInvalid) :
    saveBolting(i.given, i.partIds, i.data, i.userName, i.storeOk)

BulkStep ==
  \E b \in BulkInputs :
    bulkUpdate(b.in.given, b.in.partIds, b.mode, b.in.data, b.in.userName, b.in.storeOk)

DeleteStep ==
  \E d \in DeleteInputs :
    deleteData(d.in.given, d.in.partIds, d.mode, d.in.userName, d.in.storeOk)

LogStep == \E storeOk \in BOOLEAN : writeLogs(storeOk)

Next ==
  \/ SyncStep
  \/ InstallationStep
  \/ DeliveryStep
  \/ BoltingStep
  \/ BulkStep
  \/ DeleteStep
  \/ LogStep

Spec == Init /\ [][Next]_vars

(***************************************************************************)
(* The read operations. A read is a call of its own: it is entered whether *)
(* or not a mutating call awaits its part_logs insert, and getStatistics   *)
(* awaits four count queries in turn, between which mutating calls act.    *)
(***************************************************************************)
\* !guids || guids.length === 0, !objectIds || objectIds.length === 0
NoKeys(given, keys) == ~given \/ Len(keys) = 0

\* select(*, installation:installations(*), delivery:deliveries(*),
\* bolting:boltings(*), logs:part_logs(*)): a part and the rows that reference it
Embedded(p) ==
  [ part         |-> p,
    installation |-> {r \in installations : r.part_id = p.id},
    delivery     |-> {r \in deliveries : r.part_id = p.id},
    bolting      |-> {r \in boltings : r.part_id = p.id},
    logs         |-> SelectSeq(part_logs, LAMBDA l : l.part_id = p.id) ]

\* what a read leaves alone: every table and the mutating call in flight
ReadFrame ==
  UNCHANGED <<assembly_parts, installations, deliveries, boltings, part_logs,
              now, pc, call, outcome, logError, prev, ncalls, app>>

\* a fetch that writes a log row for every part it returns
getPartsByGuids_Logging(projectId, given, guids, storeOk) ==
  /\ read.pc = "idle"
  /\ LET found == {p \in assembly_parts :
                     p.project_id = projectId /\ p.guid \in Range(guids)}
     IN /\ read' = [op |-> "getPartsByGuids", pc |-> "idle", projectId |-> projectId,
                    given |-> given, keys |-> guids, storeOk |-> storeOk,
                    outcome |-> "ok", result |-> {Embedded(p) : p \in found}]
        /\ part_logs' = part_logs \o
             [i \in 1..Cardinality(found) |->
                [part_id |-> i, action |-> <<"Loetud">>, user_name |-> Null]]
  /\ UNCHANGED <<assembly_parts, installations, deliveries, boltings,
                 now, pc, call, outcome, logError, prev, ncalls, app>>

\* AssemblyAPI.getPartsByGuids: no guids gives [] without a query; a failed query
\* throws; else the parts of the project holding one of the guids, with their rows
getPartsByGuids(projectId, given, guids, storeOk) ==
  /\ read.pc = "idle"
  /\ read' = [op |-> "getPartsByGuids", pc |-> "idle", projectId |-> projectId,
              given |-> given, keys |-> guids, storeOk |-> storeOk,
              outcome |-> IF NoKeys(given, guids) \/ storeOk THEN "ok" ELSE "throw",
              result |-> IF NoKeys(given, guids) \/ ~storeOk THEN {}
                         ELSE {Embedded(p) : p \in
                                 {q \in assembly_parts :
                                    q.project_id = projectId /\ q.guid \in Range(guids)}}]
  /\ ReadFrame

\* AssemblyAPI.getParts: the same fetch by project, model and object ids
getParts(projectId, modelId, given, objectIds, storeOk) ==
  /\ read.pc = "idle"
  /\ read' = [op |-> "getParts", pc |-> "idle", projectId |-> projectId,
              modelId |-> modelId, given |-> given, keys |-> objectIds,
              storeOk |-> storeOk,
              outcome |-> IF NoKeys(given, objectIds) \/ storeOk THEN "ok" ELSE "throw",
              result |-> IF NoKeys(given, objectIds) \/ ~storeOk THEN {}
                         ELSE {Embedded(p) : p \in
                                 {q \in assembly_parts :
                                    /\ q.project_id = projectId
                                    /\ q.model_id = modelId
                                    /\ q.object_id \in Range(objectIds)}}]
  /\ ReadFrame

\* count of assembly_parts rows .eq('project_id').eq('model_id')
CountParts(projectId, modelId) ==
  Cardinality({p \in assembly_parts : p.project_id = projectId /\ p.model_id = modelId})

\* a count that leaves out the filter on project and model
CountStatus_Unfiltered(rows, projectId, modelId) == Cardinality(rows)

\* count of status rows joined (!inner) to a part of the project and model
CountStatus(rows, projectId, modelId) ==
  Cardinality({r \in rows : \E p \in assembly_parts :
                 p.id = r.part_id /\ p.project_id = projectId /\ p.model_id = modelId})

\* count || 0: a failed query has no count
CountOrZero(storeOk, n) == IF storeOk THEN n ELSE 0

\* AssemblyAPI.getStatistics, up to the await of its first query
getStatistics(projectId, modelId, storeOk) ==
  /\ read.pc = "idle"
  /\ read' = [op |-> "getStatistics", pc |-> "installed", projectId |-> projectId,
              modelId |-> modelId, outcome |-> "pending",
              began |-> [ncalls |-> ncalls, pc |-> pc], answered |-> storeOk,
              result |-> [total |-> CountOrZero(storeOk, CountParts(projectId, modelId))]]
  /\ ReadFrame

\* its second query
countInstalled(storeOk) ==
  /\ read.pc = "installed"
  /\ read' = [read EXCEPT !.pc = "delivered", !.answered = @ /\ storeOk,
                          !.result = [installed |-> CountOrZero(storeOk,
                                        CountStatus(installations, read.projectId,
                                                    read.modelId))] @@ read.result]
  /\ ReadFrame

\* its third query
countDelivered(storeOk) ==
  /\ read.pc = "delivered"
  /\ read' = [read EXCEPT !.pc = "bolted", !.answered = @ /\ storeOk,
                          !.result = [delivered |-> CountOrZero(storeOk,
                                        CountStatus(deliveries, read.projectId,
                                                    read.modelId))] @@ read.result]
  /\ ReadFrame

\* its fourth query, and the return
countBolted(storeOk) ==
  /\ read.pc = "bolted"
  /\ read' = [read EXCEPT !.pc = "idle", !.outcome = "ok", !.answered = @ /\ storeOk,
                          !.result = [bolted |-> CountOrZero(storeOk,
                                        CountStatus(boltings, read.projectId,
                                                    read.modelId))] @@ read.result]
  /\ ReadFrame

Keys(given, keys) == [given |-> given, keys |-> keys]
Projects == {"p1", "p2"}
Models == {"m1", "m2"}
\* no list, an empty list, a stored guid, two stored guids, a guid not stored
GuidLists == {Keys(FALSE, <<>>), Keys(TRUE, <<>>), Keys(TRUE, <<"gA">>),
              Keys(TRUE, <<"gA", "gB">>), Keys(TRUE, <<"gC">>)}
ObjectIdLists == {Keys(FALSE, <<>>), Keys(TRUE, <<>>), Keys(TRUE, <<"o1">>),
                  Keys(TRUE, <<"o1", "o2">>)}

GetPartsByGuidsStep ==
  \E projectId \in Projects, k \in GuidLists, storeOk \in BOOLEAN :
    getPartsByGuids(projectId, k.given, k.keys, storeOk)

GetPartsStep ==
  \E modelId \in Models, k \in ObjectIdLists, storeOk \in BOOLEAN :
    getParts(ProjectId, modelId, k.given, k.keys, storeOk)

GetStatisticsStep ==
  \E projectId \in Projects, modelId \in Models, storeOk \in BOOLEAN :
    getStatistics(projectId, modelId, storeOk)

CountStep ==
  \E storeOk \in BOOLEAN :
    countInstalled(storeOk) \/ countDelivered(storeOk) \/ countBolted(storeOk)

\* one mutating call, from an empty or a worked store, beside the reads
WriteStep == Next /\ (pc = "logs" \/ ncalls = 0)

NextReads ==
  \/ WriteStep
  \/ GetPartsByGuidsStep
  \/ GetPartsStep
  \/ GetStatisticsStep
  \/ CountStep

SpecReads == Init /\ [][NextReads]_vars

(***************************************************************************)
(* JavaScript values of the objects the viewer hands over. A primitive is  *)
(* its text ("" the empty string, Null for null and undefined, Zero and    *)
(* False for 0 and false); an object is the sequence of its entries, in    *)
(* the order of Object.entries; an array is the sequence of its elements,  *)
(* keyed by their indices. Up is a reference to an object that encloses    *)
(* the reference: the object graph is cyclic at that place.                *)
(***************************************************************************)
Prim(s) == [t |-> "prim", v |-> s, e |-> <<>>]
Obj(entries) == [t |-> "obj", v |-> "", e |-> entries]
Arr(items) == [t |-> "arr", v |-> "", e |-> [i \in 1..Len(items) |-> <<ToString(i - 1), items[i]>>]]
Up == [t |-> "up", v |-> "", e |-> <<>>]
Undefined == Prim(Null)

\* a value that passes if (value)
Truthy(x) == x.t # "prim" \/ x.v \notin {"", Null, Zero, False}

\* x?.key, x[key]
Get(x, key) ==
  LET hits == {i \in 1..Len(x.e) : x.e[i][1] = key}
  IN IF x.t \in {"obj", "arr"} /\ hits # {}
     THEN x.e[CHOOSE i \in hits : TRUE][2]
     ELSE Undefined

\* a || b
OrV(a, b) == IF Truthy(a) THEN a ELSE b

\* a ?? b
Nullish(a, b) == IF a.t = "prim" /\ a.v = Null THEN b ELSE a

\* String(value), `${value}`
RECURSIVE StringOf(_)
RECURSIVE JoinFrom(_, _)
JoinFrom(x, i) ==
  IF i > Len(x.e) THEN ""
  ELSE LET item == x.e[i][2]
           text == IF item.t = "prim" /\ item.v = Null THEN "" ELSE StringOf(item)
       IN IF i = Len(x.e) THEN text ELSE text \o "," \o JoinFrom(x, i + 1)

StringOf(x) ==
  CASE x.t = "prim" -> (CASE x.v = Null -> "undefined"
                          [] x.v = Zero -> "0"
                          [] x.v = False -> "false"
                          [] OTHER -> x.v)
    [] x.t = "arr" -> JoinFrom(x, 1)
    [] OTHER -> "[object Object]"

\* the object graph below x holds a reference to an enclosing object
RECURSIVE HasCycle(_)
HasCycle(x) ==
  \/ x.t = "up"
  \/ x.t \in {"obj", "arr"} /\ \E i \in 1..Len(x.e) : HasCycle(x.e[i][2])

\* the map result of flattenProps
NoResult == [k \in {} |-> Undefined]
ResultGet(result, key) == IF key \in DOMAIN result THEN result[key] ELSE Undefined
Put(result, key, value) == (key :> value) @@ result

(***************************************************************************)
(* flattenProps. st holds the locals guid and result, and whether the call  *)
(* is still running (ok) or was ended by a RangeError.                     *)
(***************************************************************************)
\* the else branch of flattenObject: a leaf, under its full key and its bare key
StoreLeaf(key, fullKey, value, st) ==
  LET r == Put(st.result, fullKey, value)
  IN [st EXCEPT !.result = IF ~Truthy(ResultGet(r, key)) THEN Put(r, key, value) ELSE r]

\* "Also check for GUID in nested objects"
NestedGuid(value, st) ==
  LET guidIfc == Get(value, "guidIfc")
      guidMs == OrV(Get(value, "GUID_MS"), Get(value, "guidMs"))
      s1 == IF Truthy(guidIfc)
            THEN [st EXCEPT !.guid = IF Truthy(@) THEN @ ELSE Prim(StringOf(guidIfc)),
                            !.result = Put(@, "GUID_IFC", guidIfc)]
            ELSE st
  IN IF Truthy(guidMs) THEN [s1 EXCEPT !.result = Put(@, "GUID_MS", guidMs)] ELSE s1

\* a check of the GUID fields that overwrites a guid found before
GuidFields_Overriding(key, value, st) ==
  IF key \in {"GUID", "GlobalId", "guidIfc", "IFC GUID"}
  THEN [st EXCEPT !.guid = IF Truthy(value) THEN Prim(StringOf(value)) ELSE @,
                  !.result = Put(@, "GUID_IFC", value)]
  ELSE st

\* "Check for GUID fields": the key is compared with ===
GuidFields(key, value, st) ==
  LET s1 == IF key \in {"GUID", "GlobalId", "guidIfc", "IFC GUID"}
            THEN [st EXCEPT !.guid = IF ~Truthy(@) /\ Truthy(value)
                                     THEN Prim(StringOf(value)) ELSE @,
                            !.result = Put(@, "GUID_IFC", value)]
            ELSE st
  IN IF key \in {"GUID_MS", "MS_GUID", "guidMs"}
     THEN [s1 EXCEPT !.result = Put(@, "GUID_MS", value)]
     ELSE s1

RECURSIVE flattenObject(_, _, _)
RECURSIVE flattenEntries(_, _, _, _)

\* the body of Object.entries(obj).forEach for entry i and those after it
flattenEntries(o, prefix, i, st) ==
  IF i > Len(o.e) \/ ~st.ok THEN st
  ELSE LET key == o.e[i][1]
           value == o.e[i][2]
           fullKey == IF prefix # "" THEN prefix \o "." \o key ELSE key
           s1 == IF Truthy(value) /\ value.t \in {"obj", "up"}
                 THEN LET inner == flattenObject(value, fullKey, st)
                      IN IF inner.ok THEN NestedGuid(value, inner) ELSE inner
                 ELSE StoreLeaf(key, fullKey, value, st)
           s2 == IF s1.ok THEN GuidFields(key, value, s1) ELSE s1
       IN flattenEntries(o, prefix, i + 1, s2)

\* const flattenObject = (obj, prefix) => ... It holds no record of the objects
\* it is in: entering an object that encloses the current one walks the same
\* entries again and again until the stack is exhausted (RangeError)
flattenObject(o, prefix, st) ==
  IF ~st.ok THEN st
  ELSE IF ~Truthy(o) \/ o.t = "prim" THEN st
  ELSE IF o.t = "up" THEN [st EXCEPT !.ok = FALSE]
  ELSE flattenEntries(o, prefix, 1, st)

\* for (const prop of properties): element j of a property set's array and those
\* after it
RECURSIVE flattenPropArray(_, _, _, _)
flattenPropArray(properties, setName, j, st) ==
  IF j > Len(properties.e) THEN st
  ELSE LET prop == properties.e[j][2]
           propName == OrV(Get(prop, "name"), OrV(Get(prop, "propertyName"), Prim("")))
           propValue == Nullish(Get(prop, "value"),
                                Nullish(Get(prop, "propertyValue"),
                                        Nullish(Get(prop, "data"), Prim(""))))
           name == StringOf(propName)
           key == IF setName # "" THEN setName \o "." \o name ELSE name
           r1 == Put(st.result, key, propValue)
           r2 == IF ~Truthy(ResultGet(r1, name)) THEN Put(r1, name, propValue) ELSE r1
           isName(names) == propName.t = "prim" /\ propName.v \in names
           s1 == [st EXCEPT !.result = r2]
           s2 == IF isName({"GUID", "GlobalId", "guidIfc"})
                 THEN [s1 EXCEPT !.guid = IF ~Truthy(@) /\ Truthy(propValue)
                                          THEN Prim(StringOf(propValue)) ELSE @,
                                 !.result = Put(@, "GUID_IFC", propValue)]
                 ELSE s1
           s3 == IF isName({"GUID_MS", "MS_GUID", "guidMs"})
                 THEN [s2 EXCEPT !.result = Put(@, "GUID_MS", propValue)]
                 ELSE s2
       IN flattenPropArray(properties, setName, j + 1,
                           IF Truthy(propName) THEN s3 ELSE st)

\* for (const propSet of props): element i of the array of property sets and
\* those after it
RECURSIVE flattenPropSets(_, _, _)
flattenPropSets(props, i, st) ==
  IF i > Len(props.e) \/ ~st.ok THEN st
  ELSE LET propSet == props.e[i][2]
           name == OrV(Get(propSet, "name"),
                       OrV(Get(propSet, "propertySetName"), Prim("")))
           setName == IF Truthy(name) THEN StringOf(name) ELSE ""
           properties == OrV(Get(propSet, "properties"),
                             OrV(Get(propSet, "data"), Arr(<<>>)))
           s1 == IF properties.t = "arr"
                 THEN flattenPropArray(properties, setName, 1, st)
                 ELSE flattenObject(properties, setName, st)
           s2 == flattenObject(propSet, setName, s1)
       IN flattenPropSets(props, i + 1, s2)

\* if (obj.ReferenceObject) { ... }
ReferenceObjectGuid(obj, st) ==
  LET ref == Get(obj, "ReferenceObject")
      guidIfc == Get(ref, "guidIfc")
      guidMs == OrV(Get(ref, "GUID_MS"), Get(ref, "guidMs"))
      s1 == IF Truthy(guidIfc) /\ ~Truthy(st.guid)
            THEN [st EXCEPT !.guid = guidIfc, !.result = Put(@, "GUID_IFC", guidIfc)]
            ELSE st
  IN IF ~Truthy(ref) THEN st
     ELSE IF Truthy(guidMs) THEN [s1 EXCEPT !.result = Put(@, "GUID_MS", guidMs)]
     ELSE s1

\* if (obj.Product) { ... }
ProductFields(obj, st) ==
  LET product == Get(obj, "Product")
  IN IF ~Truthy(product) THEN st
     ELSE [st EXCEPT !.result =
             Put(Put(Put(@, "ProductName",
                         OrV(Get(product, "Product_Name"), Get(product, "name"))),
                     "ProductDescription",
                     OrV(Get(product, "Product_Description"), Get(product, "description"))),
                 "ProductType",
                 OrV(Get(product, "Product_Object_Type"), Get(product, "type")))]

\* `runtime-${modelId}-${objectId}`
RuntimeGuid(modelId, objectId) == Prim("runtime-" \o modelId \o "-" \o objectId)

\* "Fallback GUID from result or generate from runtime ID"
FallbackGuid(result, modelId, objectId) ==
  OrV(ResultGet(result, "GUID"),
      OrV(ResultGet(result, "GUID_IFC"),
          OrV(ResultGet(result, "GlobalId"),
              OrV(ResultGet(result, "guidIfc"),
                  OrV(ResultGet(result, "IFC GUID"), RuntimeGuid(modelId, objectId))))))

\* a resolver that takes the session handle of an object with a guid field
DirectGuid_Handle(obj) ==
  IF Truthy(Get(obj, "guid"))
  THEN OrV(Get(obj, "id"), Get(obj, "objectRuntimeId"))
  ELSE Prim("")

\* "Try to get from object directly": four assignments in turn
DirectGuid(obj) ==
  LET g1 == IF Truthy(Get(obj, "guid")) THEN Get(obj, "guid") ELSE Prim("")
      g2 == IF Truthy(Get(obj, "GUID")) THEN Get(obj, "GUID") ELSE g1
      g3 == IF Truthy(Get(obj, "GlobalId")) THEN Get(obj, "GlobalId") ELSE g2
  IN IF Truthy(Get(obj, "guidIfc")) THEN Get(obj, "guidIfc") ELSE g3

\* what flattenProps returns, or ok = FALSE when it was ended by an exception
flattenProps(obj, modelId) ==
  LET objectId == StringOf(OrV(Get(obj, "id"), Get(obj, "objectRuntimeId")))
      props == OrV(Get(obj, "properties"), Arr(<<>>))
      st0 == [ok |-> TRUE, guid |-> DirectGuid(obj), result |-> NoResult]
      s1 == IF props.t = "arr" THEN flattenPropSets(props, 1, st0)
            ELSE flattenObject(props, "", st0)
      s2 == IF Truthy(obj) /\ obj.t # "prim"
            THEN ProductFields(obj, ReferenceObjectGuid(obj, s1))
            ELSE s1
  IN IF ~s2.ok
     THEN [ok |-> FALSE, objectId |-> objectId, guid |-> Undefined, properties |-> NoResult]
     ELSE [ok |-> TRUE, objectId |-> objectId,
           guid |-> IF Truthy(s2.guid) THEN s2.guid
                    ELSE FallbackGuid(s2.result, modelId, objectId),
           properties |-> s2.result]

(***************************************************************************)
(* Viewer objects: a session handle, direct identity fields, a property    *)
(* tree in one of the shapes the viewer gives, a ReferenceObject.          *)
(***************************************************************************)
Field(key, text) == <<key, Prim(text)>>
IfcShaped == "0123456789ABCDEFGHIJ_$"

\* the handles one object has in two sessions, as id or as objectRuntimeId
Handles == { <<Field("id", "o1")>>, <<Field("id", "o2")>>,
             <<Field("objectRuntimeId", "o1")>> }

\* no direct field; guid; a GUID that is a plain word; guid and guidIfc that
\* differ; GlobalId
DirectFields == { <<>>,
                  <<Field("guid", "gA")>>,
                  <<Field("GUID", "Beam-7")>>,
                  <<Field("guid", "gA"), Field("guidIfc", "gB")>>,
                  <<Field("GlobalId", "gB")>> }

PropertyTrees ==
  { \* no properties
    <<>>,
    \* an array of property sets, each an array of name/value pairs
    << <<"properties", Arr(<< Obj(<< Field("name", "Tekla"),
                                     <<"properties",
                                       Arr(<< Obj(<<Field("name", "Mark"), Field("value", "B-1")>>),
                                              Obj(<<Field("name", "GUID"), Field("value", "gC")>>) >>)>> >>) >>)>> >>,
    \* a property set whose properties are an object
    << <<"properties", Arr(<< Obj(<< Field("name", "Ref"),
                                     <<"properties",
                                       Obj(<<Field("Name", "Beam"), Field("GlobalId", "gC")>>)>> >>) >>)>> >>,
    \* a property set naming a property IFC GUID
    << <<"properties", Arr(<< Obj(<< Field("name", "Ifc"),
                                     <<"properties",
                                       Arr(<< Obj(<<Field("name", "IFC GUID"),
                                                    Field("value", "gC")>>) >>)>> >>) >>)>> >>,
    \* an object, the identity one level down
    << <<"properties", Obj(<< Field("Mark", "B-1"),
                              <<"Identity", Obj(<<Field("GUID", "gC")>>)>> >>)>> >>,
    \* an object with a nested reference object
    << <<"properties", Obj(<< <<"Reference", Obj(<<Field("guidIfc", "gC"),
                                                    Field("guidMs", "gM")>>)>> >>)>> >>,
    \* identity keys in other letter cases
    << <<"properties", Obj(<< Field("globalid", "gC") >>)>> >>,
    << <<"properties", Obj(<< Field("Mark", "B-1"),
                              <<"Identity", Obj(<<Field("Guid", "gC")>>)>> >>)>> >>,
    \* the identity inside an array nested in the object
    << <<"properties", Obj(<< <<"Sets", Arr(<< Obj(<<Field("GUID", "gC")>>) >>)>> >>)>> >>,
    \* an IFC-shaped string under a key that names no identity
    << <<"properties", Obj(<< Field("Tag", IfcShaped), Field("Mark", "B-1") >>)>> >>,
    \* one bare key twice, first with an empty value
    << <<"properties", Obj(<< <<"A", Obj(<<Field("Name", "")>>)>>,
                              <<"B", Obj(<<Field("Name", "Beam")>>)>> >>)>> >>,
    \* an empty GUID
    << <<"properties", Obj(<< Field("GUID", ""), Field("Mark", "B-1") >>)>> >>,
    \* an object that holds a reference to itself
    << <<"properties", Obj(<< Field("Mark", "B-1"), <<"Owner", Up>> >>)>> >>,
    \* the same below a GUID
    << <<"properties", Obj(<< Field("GUID", "gC"),
                              <<"Part", Obj(<< <<"Parent", Up>> >>)>> >>)>> >> }

ReferenceObjects == { <<>>,
                      << <<"ReferenceObject", Obj(<<Field("guidIfc", "gR")>>)>> >> }

ViewerObject(handle, direct, tree, ref) == Obj(handle \o direct \o tree \o ref)

ViewerObjects ==
  {ViewerObject(h, d, t, r) :
     h \in Handles, d \in DirectFields, t \in PropertyTrees, r \in ReferenceObjects}

\* the App is about to resolve a viewer object of the model
InitFlatten ==
  /\ assembly_parts = {}
  /\ installations = {}
  /\ deliveries = {}
  /\ boltings = {}
  /\ part_logs = <<>>
  /\ now = 0
  /\ pc = "idle"
  /\ call = NoCall
  /\ outcome = "none"
  /\ logError = FALSE
  /\ prev = [call |-> NoCall, outcome |-> "none"]
  /\ ncalls = 0
  /\ read = NoRead
  /\ \E obj \in ViewerObjects :
       app = [op |-> "flattenProps", obj |-> obj, modelId |-> ModelId, done |-> FALSE]

\* await flattenProps(obj, modelId, api)
Resolve ==
  /\ app.op = "flattenProps"
  /\ ~app.done
  /\ app' = [op |-> "flattenProps", obj |-> app.obj, modelId |-> app.modelId,
             done |-> TRUE, out |-> flattenProps(app.obj, app.modelId)]
  /\ UNCHANGED <<assembly_parts, installations, deliveries, boltings, part_logs,
                 now, pc, call, outcome, logError, prev, ncalls, read>>

NextFlatten == Resolve

SpecFlatten == InitFlatten /\ [][NextFlatten]_vars

(***************************************************************************)
(* deepSearchPropertiesForGUID (src/unnamed/part_000): the search of the    *)
(* properties of one object for GUID-like values. Strings are read         *)
(* character by character, as the regular expressions read them.           *)
(***************************************************************************)
UpperLetters == "ABCDEFGHIJKLMNOPQRSTUVWXYZ"
LowerLetters == "abcdefghijklmnopqrstuvwxyz"

\* the flag i of a regular expression: letters compare by their lower case
LowerChar(c) ==
  IF c \in CharsOf(UpperLetters)
  THEN CharAt(LowerLetters, CHOOSE i \in 1..Len(UpperLetters) : CharAt(UpperLetters, i) = c)
  ELSE c

RECURSIVE LowerCase(_)
LowerCase(s) ==
  IF s = "" THEN "" ELSE LowerChar(CharAt(s, 1)) \o LowerCase(SubSeq(s, 2, Len(s)))

\* an unanchored match of a word somewhere in s
Contains(s, word) ==
  \E i \in 1..(Len(s) - Len(word) + 1) : SubSeq(s, i, i + Len(word) - 1) = word

\* /guid|globalid|ifcguid/i.test(key)
isGUIDKey(key) ==
  LET k == LowerCase(key)
  IN Contains(k, "guid") \/ Contains(k, "globalid") \/ Contains(k, "ifcguid")

\* an IFC pattern that lost its anchors and its count
isIFCGUID_Unanchored(value) ==
  \E i \in 1..Len(value) : CharAt(value, i) \in Digits \cup CharsOf(UpperLetters)
                                \cup CharsOf(LowerLetters) \cup {"_", "$"}

\* /^[0-9A-Za-z_$]{22}$/.test(value)
isIFCGUID(value) ==
  /\ Len(value) = 22
  /\ \A i \in 1..22 : CharAt(value, i) \in Digits \cup CharsOf(UpperLetters)
                          \cup CharsOf(LowerLetters) \cup {"_", "$"}

\* /^[0-9a-fA-F]{8}-[0-9a-fA-F]{4}-[0-9a-fA-F]{4}-[0-9a-fA-F]{4}-[0-9a-fA-F]{12}$/.test(value)
isMSGUID(value) ==
  /\ Len(value) = 36
  /\ \A i \in 1..36 :
       IF i \in {9, 14, 19, 24}
       THEN CharAt(value, i) = "-"
       ELSE CharAt(value, i) \in Digits \cup CharsOf("abcdef") \cup CharsOf("ABCDEF")

\* typeof value === 'string'
IsString(x) == x.t = "prim" /\ x.v \notin {Null, Zero, False}

\* the entry pushed to guidsFound for a string value, if any
Candidate(key, currentPath, value) ==
  IF isGUIDKey(key) \/ isIFCGUID(value) \/ isMSGUID(value)
  THEN << [path |-> currentPath, value |-> value,
           type |-> IF isMSGUID(value) THEN "MS"
                    ELSE IF isIFCGUID(value) THEN "IFC" ELSE "Unknown"] >>
  ELSE <<>>

RECURSIVE searchForGUID(_, _, _)
RECURSIVE searchEntries(_, _, _, _)

\* the body of Object.entries(obj).forEach for entry i and those after it
searchEntries(o, path, i, st) ==
  IF i > Len(o.e) \/ ~st.ok THEN st
  ELSE LET key == o.e[i][1]
           value == o.e[i][2]
           currentPath == IF path # "" THEN path \o "." \o key ELSE key
           s1 == IF IsString(value)
                 THEN [st EXCEPT !.guidsFound = @ \o Candidate(key, currentPath, value.v)]
                 ELSE IF value.t # "prim"
                 THEN searchForGUID(value, currentPath, st)
                 ELSE st
       IN searchEntries(o, path, i + 1, s1)

\* const searchForGUID = (obj, path) => ... It descends into every object and
\* array and holds no record of the objects it is in: one that encloses the
\* current object is walked until the stack is exhausted (RangeError)
searchForGUID(o, path, st) ==
  IF ~st.ok THEN st
  ELSE IF ~Truthy(o) \/ o.t = "prim" THEN st
  ELSE IF o.t = "up" THEN [st EXCEPT !.ok = FALSE]
  ELSE searchEntries(o, path, 1, st)

\* guidsFound.find(g => g.type === type), or undefined
Find(guidsFound, type) ==
  LET hits == {i \in 1..Len(guidsFound) : guidsFound[i].type = type}
  IN IF hits = {} THEN <<>>
     ELSE <<guidsFound[CHOOSE i \in hits : \A j \in hits : i <= j]>>

\* a choice that prefers the MS GUID to the IFC GUID
preferred_MsFirst(guidsFound) ==
  (Find(guidsFound, "MS") \o Find(guidsFound, "IFC") \o guidsFound)[1]

\* const preferred = ifcGuid || msGuid || guidsFound[0]
preferred(guidsFound) ==
  (Find(guidsFound, "IFC") \o Find(guidsFound, "MS") \o guidsFound)[1]

NotFound == [found |-> FALSE, guid |-> Null, source |-> Null, guidsFound |-> <<>>]

\* deepSearchPropertiesForGUID, from the answer props of getObjectProperties on;
\* an exception is caught and gives found: false
deepSearchPropertiesForGUID(props) ==
  IF ~Truthy(props) \/ ~Truthy(Get(props, "0")) THEN NotFound
  ELSE LET st == searchForGUID(Get(props, "0"), "", [ok |-> TRUE, guidsFound |-> <<>>])
       IN IF ~st.ok THEN NotFound
          ELSE IF Len(st.guidsFound) > 0
          THEN [found |-> TRUE, guid |-> preferred(st.guidsFound).value,
                source |-> "deepSearch." \o preferred(st.guidsFound).path,
                guidsFound |-> st.guidsFound]
          ELSE NotFound

\* the calls of the application that touch no table: the store at rest
Idle ==
  /\ assembly_parts = {}
  /\ installations = {}
  /\ deliveries = {}
  /\ boltings = {}
  /\ part_logs = <<>>
  /\ now = 0
  /\ pc = "idle"
  /\ call = NoCall
  /\ outcome = "none"
  /\ logError = FALSE
  /\ prev = [call |-> NoCall, outcome |-> "none"]
  /\ ncalls = 0
  /\ read = NoRead

AppFrame ==
  UNCHANGED <<assembly_parts, installations, deliveries, boltings, part_logs,
              now, pc, call, outcome, logError, prev, ncalls, read>>

\* string values a viewer can hold: two of each shape and their near misses
IfcShaped2 == "$_zyxwvutsrqponmlkji98"
MsShaped == "0a1B2c3D-4e5F-6a7b-8C9d-0123456789ab"
MsShaped2 == "FFFFFFFF-0000-aaaa-9999-abcdefABCDEF"
ShapedStrings == {IfcShaped, IfcShaped2, MsShaped, MsShaped2, "Beam"}
NearMisses ==
  { "",
    "0123456789ABCDEFGHIJ_",                   \* 21 characters
    "0123456789ABCDEFGHIJ_$0",                 \* 23 characters
    "0123456789-BCDEFGHIJ_$",                  \* 22 with a hyphen
    "0123456789 BCDEFGHIJ_$",                  \* 22 with a space
    "0a1B2c3D4e5F6a7b8C9d0123456789ab",        \* 32 hexadecimal, no hyphens
    "0a1B2c3D-4e5F-6a7b-8C9d-0123456789ag",    \* a letter beyond f
    "0a1B2c3D4-e5F-6a7b-8C9d-0123456789ab",    \* a hyphen out of place
    "0a1B2c3D-4e5F-6a7b-8C9d-0123456789abc",   \* 37 characters
    "0a1B2c3D_4e5F_6a7b_8C9d_0123456789ab" }   \* underscores for hyphens

Entries(keys, strings) == {<<k, Prim(v)>> : k \in keys, v \in strings}

\* props[0] of getObjectProperties: one entry; two entries side by side; the
\* first inside a nested object or inside an array, ahead of the second
SearchTrees ==
  {Obj(<<e>>) : e \in Entries({"Tag", "ObjectGuid", "GLOBALID"}, ShapedStrings \cup NearMisses)}
  \cup UNION { { Obj(<<e1, e2>>),
                 Obj(<< <<"Pset", Obj(<<e1>>)>>, e2 >>),
                 Obj(<< <<"Sets", Arr(<<Obj(<<e1>>)>>)>>, e2 >>) } :
               e1 \in Entries({"Tag", "GUID"}, ShapedStrings),
               e2 \in Entries({"Ref", "IfcGuid"}, ShapedStrings) }
  \cup { Obj(<< <<"Tag", Prim(Zero)>>, <<"GUID", Prim(Null)>> >>),
         Obj(<< <<"Tag", Prim(IfcShaped)>>, <<"Owner", Up>> >>) }

SearchProps == {Arr(<<t>>) : t \in SearchTrees} \cup {Arr(<<>>), Undefined}

InitDeepSearch ==
  /\ Idle
  /\ \E props \in SearchProps : app = [op |-> "deepSearch", props |-> props, done |-> FALSE]

\* await deepSearchPropertiesForGUID(api, modelId, objectId)
DeepSearch ==
  /\ app.op = "deepSearch"
  /\ ~app.done
  /\ app' = [op |-> "deepSearch", props |-> app.props, done |-> TRUE,
             out |-> deepSearchPropertiesForGUID(app.props)]
  /\ AppFrame

NextDeepSearch == DeepSearch

SpecDeepSearch == InitDeepSearch /\ [][NextDeepSearch]_vars

(***************************************************************************)
(* The row syncParts builds for one part, over the property bags a         *)
(* selection can hold.                                                     *)
(***************************************************************************)
\* every bag that holds, under each key of a group, one of the given values
BagsOver(keys, values) == {Props(f) : f \in [keys -> values]}

Texts == {Null, "", "a", "b"}
NumberTexts ==
  {Null, "", Zero, "0", "12.5", "12.50", " 12.5", "12.5kg", "1e3", "1.5e-2", "-0.5", ".5",
   "+7", "007", "1.", "abc", "kg12", ".", "-", "e5", " ", "12,5", "Infinity", "NaN"}

MapBags ==
  BagsOver({"Tekla_Assembly.Cast_unit_Mark", "Mark", "Name"}, Texts)
  \cup BagsOver({"Type", "Tekla_Assembly.Cast_unit_type"}, Texts)
  \cup BagsOver({"Tekla_Assembly.Assembly", "Assembly", "Assembly Code"}, Texts)
  \cup BagsOver({"Phase", "Assembly Phase"}, Texts)
  \cup BagsOver({"Profile", "Section"}, Texts)
  \cup BagsOver({"Material", "Grade"}, Texts)
  \cup BagsOver({"Tekla_Assembly.Cast_unit_weight", "Weight"}, {Null, "", Zero, "12.5", "7", "abc"})
  \cup BagsOver({"Length"}, NumberTexts)
  \cup BagsOver({"Tekla_Assembly.Cast_unit_position_code",
                 "Tekla_Assembly.Cast_unit_rebar_weight",
                 "Tekla_Assembly.Cast_unit_bottom_elevation",
                 "Tekla_Assembly.Cast_unit_top_elevation"}, {Null, "3.5"})
  \cup BagsOver({"Mark", "Finish", "GUID_MS"}, {Null, "a"})

InitMap ==
  /\ Idle
  /\ \E bag \in MapBags :
       app = [op |-> "partsToUpsert", part |-> Part("o1", "gA", bag), done |-> FALSE]

\* parts.map(p => ...) for one part
MapPart ==
  /\ app.op = "partsToUpsert"
  /\ ~app.done
  /\ app' = [op |-> "partsToUpsert", part |-> app.part, done |-> TRUE,
             out |-> partsToUpsert(ProjectId, ProjectName, ModelId, ModelName, app.part, now)]
  /\ AppFrame

NextMap == MapPart

SpecMap == InitMap /\ [][NextMap]_vars

(***************************************************************************)
(* handleSelectionChange (App.tsx). Every await of the handler is a step;  *)
(* the answer of the viewer or of the store is chosen at the step. app     *)
(* holds the displayed parts and the locals of the handler.                *)
(***************************************************************************)
Answer(value) == [ok |-> TRUE, value |-> value]
Failure(reason) == [ok |-> FALSE, value |-> reason]
ErrorOf(message) == Obj(<<Field("message", message)>>)
\* what a rejected promise can carry: an Error, a string, nothing
Reasons == {ErrorOf("failed"), Prim("timeout"), Undefined}

\* err.message is a TypeError when err is null or undefined
MessageThrows(err) == err.t = "prim" /\ err.v = Null

\* the elements of an array
Items(x) == [i \in 1..Len(x.e) |-> x.e[i][2]]
\* x?.[i]
At(x, i) ==
  IF IsString(x) THEN (IF i < Len(x.v) THEN Prim(CharAt(x.v, i + 1)) ELSE Undefined)
  ELSE Get(x, ToString(i))
\* x && x.length > 0
HasLength(x) ==
  \/ x.t = "arr" /\ Len(x.e) > 0
  \/ IsString(x) /\ Len(x.v) > 0
\* { ...obj, properties: value }
Spread(obj, value) ==
  Obj(SelectSeq(IF obj.t \in {"obj", "arr"} THEN obj.e ELSE <<>>,
                LAMBDA entry : entry[1] # "properties")
      \o << <<"properties", value>> >>)

Return(a) == [a EXCEPT !.pc = "done", !.outcome = "returned"]
\* catch (err) { console.error(...); alert('...' + err.message) }
Caught(a, err) ==
  IF MessageThrows(err) THEN [a EXCEPT !.pc = "done", !.outcome = "rejected"]
  ELSE [a EXCEPT !.pc = "done", !.outcome = "returned", !.alerted = TRUE]

HandlerFrame ==
  UNCHANGED <<installations, deliveries, boltings, part_logs,
              pc, call, outcome, logError, prev, ncalls, read>>
Awaiting(at) == app.op = "handleSelectionChange" /\ app.pc = at

\* a handler that starts its queries whether or not the app is ready
Start_Unguarded ==
  /\ Awaiting("start")
  /\ app' = [app EXCEPT !.pc = "getProject"]
  /\ HandlerFrame
  /\ UNCHANGED <<assembly_parts, now>>

\* the guards of the handler, before its try
Start ==
  /\ Awaiting("start")
  /\ app' = IF ~app.ready THEN Return(app)
            ELSE IF NoKeys(app.selection.given, app.selection.keys)
            THEN Return([app EXCEPT !.parts = {}])
            ELSE [app EXCEPT !.pc = "getProject"]
  /\ HandlerFrame
  /\ UNCHANGED <<assembly_parts, now>>

\* const project = await api.project.getProject()
GetProject(response) ==
  /\ Awaiting("getProject")
  /\ app' = IF ~response.ok THEN Caught(app, response.value)
            ELSE [app EXCEPT !.pc = "getModels",
                             !.projectNameFull =
                                OrV(Get(response.value, "name"),
                                    OrV(Prim(ProjectName), Prim("Unknown Project")))]
  /\ HandlerFrame
  /\ UNCHANGED <<assembly_parts, now>>

\* allModels.forEach(m => { if (m?.id && m?.name) modelNameMap.set(...) })
RECURSIVE ModelNames(_, _, _)
ModelNames(models, i, map) ==
  IF i > Len(models) THEN map
  ELSE LET m == models[i]
       IN ModelNames(models, i + 1,
                     IF Truthy(Get(m, "id")) /\ Truthy(Get(m, "name"))
                     THEN (StringOf(Get(m, "id")) :> StringOf(Get(m, "name"))) @@ map
                     ELSE map)

\* const allModels = await viewer.getModels(); allModels?.forEach(...)
GetModels(response) ==
  /\ Awaiting("getModels")
  /\ app' = IF ~response.ok THEN Caught(app, response.value)
            ELSE IF response.value = Undefined THEN [app EXCEPT !.pc = "getObjects"]
            ELSE IF response.value.t # "arr"
            THEN Caught(app, ErrorOf("allModels?.forEach is not a function"))
            ELSE [app EXCEPT !.pc = "getObjects",
                             !.modelNameMap = ModelNames(Items(response.value), 1, <<>>)]
  /\ HandlerFrame
  /\ UNCHANGED <<assembly_parts, now>>

\* getSelectedObjects: [] on a failure and on an answer that is no array
getSelectedObjects(response) ==
  IF ~response.ok \/ response.value.t # "arr" THEN <<>>
  ELSE LET kept == SelectSeq(Items(response.value),
                             LAMBDA m : /\ Truthy(Get(m, "modelId"))
                                        /\ Get(m, "objects").t = "arr"
                                        /\ Len(Get(m, "objects").e) > 0)
       IN [i \in 1..Len(kept) |->
             [modelId |-> StringOf(Get(kept[i], "modelId")),
              objects |-> Items(Get(kept[i], "objects"))]]

\* const selectedWithBasic = await getSelectedObjects(api)
GetObjects(response) ==
  /\ Awaiting("getObjects")
  /\ LET selectedWithBasic == getSelectedObjects(response)
     IN app' = IF Len(selectedWithBasic) = 0 THEN Return([app EXCEPT !.parts = {}])
               ELSE [app EXCEPT !.pc = "getObjectProperties",
                                !.selected = selectedWithBasic, !.m = 1]
  /\ HandlerFrame
  /\ UNCHANGED <<assembly_parts, now>>

\* fullObjects = objects.map((obj, idx) => ({...obj, properties: ...}))
Merged(objects, fullProperties) ==
  [idx \in 1..Len(objects) |->
     LET propData == IF fullProperties = Undefined THEN Undefined
                     ELSE At(fullProperties, idx - 1)
     IN Spread(objects[idx],
               OrV(Get(propData, "properties"),
                   OrV(propData, Get(objects[idx], "properties"))))]

\* "Try alternative method": getObjectProperties([runtimeId]) for each object,
\* each in a try of its own
Alternative(objects, response) ==
  [i \in 1..Len(objects) |->
     IF response.ok /\ HasLength(response.value)
     THEN Spread(objects[i], OrV(Get(At(response.value, 0), "properties"), response.value))
     ELSE objects[i]]

\* await viewer.getObjectProperties(currentModelId, objectRuntimeIds, ...) for
\* the current model, with the merge that follows or the catch. JSON.stringify
\* of a cyclic answer is a TypeError; e.message of a rejection that carries
\* nothing is a TypeError raised inside the catch
GetObjectProperties(response, alternative) ==
  /\ Awaiting("getObjectProperties")
  /\ LET objects == app.selected[app.m].objects
     IN app' = IF response.ok /\ ~HasCycle(response.value)
               THEN [app EXCEPT !.pc = "flatten",
                                !.fullObjects = Merged(objects, response.value)]
               ELSE IF ~response.ok /\ MessageThrows(response.value)
               THEN Caught(app, ErrorOf("Cannot read properties of undefined"))
               ELSE [app EXCEPT !.pc = "flatten",
                                !.fullObjects = Alternative(objects, alternative)]
  /\ HandlerFrame
  /\ UNCHANGED <<assembly_parts, now>>

\* flattened.properties.Name = obj?.name || flattened.properties.Name || ...
WithName(obj, properties) ==
  Put(properties, "Name",
      OrV(Get(obj, "name"),
          OrV(ResultGet(properties, "Name"),
              OrV(ResultGet(properties, "Tekla_Assembly.Cast_unit_Mark"), Prim("")))))

\* flattened.properties.Type = obj?.type || flattened.properties.Type || ...
WithType(obj, properties) ==
  Put(properties, "Type",
      OrV(Get(obj, "type"),
          OrV(ResultGet(properties, "Type"),
              OrV(ResultGet(properties, "Tekla_Assembly.Cast_unit_type"), Prim("Unknown")))))

\* "ADD METADATA FIELDS": FileName, ModelId, Project
WithMetadata(properties, currentModelId, currentModelName, projectNameFull) ==
  Put(Put(Put(properties, "FileName", Prim(currentModelName)),
          "ModelId", Prim(currentModelId)),
      "Project", projectNameFull)

\* the item pushed for a flattened object; none when flattenProps rejected
Collected(obj, flattened, currentModelId, currentModelName, projectNameFull) ==
  IF flattened.ok
  THEN << [objectId |-> flattened.objectId, guid |-> flattened.guid,
           properties |-> WithName(obj, WithType(obj,
                            WithMetadata(flattened.properties, currentModelId,
                                         currentModelName, projectNameFull)))] >>
  ELSE <<>>

\* the body of the flatten loop for one object
Flattened(obj, currentModelId, currentModelName, projectNameFull) ==
  Collected(obj, flattenProps(obj, currentModelId), currentModelId, currentModelName,
            projectNameFull)

RECURSIVE FlattenAll(_, _, _, _, _)
FlattenAll(objects, i, currentModelId, currentModelName, projectNameFull) ==
  IF i > Len(objects) THEN <<>>
  ELSE Flattened(objects[i], currentModelId, currentModelName, projectNameFull)
       \o FlattenAll(objects, i + 1, currentModelId, currentModelName, projectNameFull)

\* modelNameMap.get(currentModelId) || modelName || 'Unknown Model'
currentModelName(currentModelId) ==
  Or(IF currentModelId \in DOMAIN app.modelNameMap
     THEN app.modelNameMap[currentModelId] ELSE Null,
     Or(app.modelName, "Unknown Model"))

\* after the flatten loop of a model: the next model or, after the last one,
\* STEP 4 and the check of STEP 5
Collect(collection) ==
  IF app.m < Len(app.selected)
  THEN [app EXCEPT !.pc = "getObjectProperties", !.m = @ + 1, !.collection = collection]
  ELSE IF Len(collection) = 0
  THEN Caught(app, ErrorOf("No properties could be loaded"))
  ELSE [app EXCEPT !.pc = "sync", !.collection = collection]

FlattenModel(currentModelId) ==
  Collect(app.collection
          \o FlattenAll(app.fullObjects, 1, currentModelId,
                        currentModelName(currentModelId), app.projectNameFull))

\* the flatten loop of the current model
FlattenObjects ==
  /\ Awaiting("flatten")
  /\ app' = FlattenModel(app.selected[app.m].modelId)
  /\ HandlerFrame
  /\ UNCHANGED <<assembly_parts, now>>

\* the property bag syncParts reads of a collected item
BagOf(properties) ==
  [k \in PropKeys |->
     IF k \notin DOMAIN properties THEN Null
     ELSE IF properties[k].t = "prim" THEN properties[k].v
     ELSE "[object Object]"]

\* await AssemblyAPI.syncParts(projectId, projectName, modelId || ..., ...)
SyncToStore(t, storeOk) ==
  /\ Awaiting("sync")
  /\ LET batch == [i \in 1..Len(app.collection) |->
                     partsToUpsert(ProjectId, ProjectName,
                                   Or(app.modelId, "default-model"),
                                   Or(app.modelName, "Unknown Model"),
                                   Part(app.collection[i].objectId,
                                        StringOf(app.collection[i].guid),
                                        BagOf(app.collection[i].properties)), t)]
         r == UpsertParts(assembly_parts, batch)
     IN IF storeOk /\ r.ok
        THEN /\ assembly_parts' = r.rows
             /\ app' = [app EXCEPT !.pc = "load"]
        ELSE /\ UNCHANGED assembly_parts
             /\ app' = Caught(app, ErrorOf("Failed to sync parts"))
  /\ now' = t
  /\ HandlerFrame

\* the row of the list displayed for a loaded part
Displayed(e) ==
  [ id |-> e.part.object_id, guid |-> e.part.guid, mark |-> Or(e.part.mark, "N/A"),
    assembly |-> Or(e.part.assembly, ""), name |-> Or(e.part.name, ""),
    weight |-> IF e.part.weight = NullValue THEN Decimal(0, 0) ELSE e.part.weight,
    phase |-> Or(e.part.phase, ""), isSelected |-> TRUE,
    installation |-> e.installation, delivery |-> e.delivery, bolting |-> e.bolting,
    logs |-> e.logs ]

\* a load that displays every part of the project
LoadFromStore_WholeProject(storeOk) ==
  /\ Awaiting("load")
  /\ app' = IF storeOk
            THEN Return([app EXCEPT !.parts =
                           {Displayed(Embedded(p)) : p \in {q \in assembly_parts :
                                                              q.project_id = ProjectId}}])
            ELSE Caught(app, ErrorOf("Failed to fetch parts"))
  /\ HandlerFrame
  /\ UNCHANGED <<assembly_parts, now>>

\* const loadedParts = await AssemblyAPI.getPartsByGuids(projectId, guids);
\* setParts(loadedParts.map(...))
LoadFromStore(storeOk) ==
  /\ Awaiting("load")
  /\ LET guids == {StringOf(app.collection[i].guid) : i \in 1..Len(app.collection)}
         loadedParts == {Embedded(p) : p \in {q \in assembly_parts :
                                                q.project_id = ProjectId /\ q.guid \in guids}}
     IN app' = IF storeOk THEN Return([app EXCEPT !.parts = {Displayed(e) : e \in loadedParts}])
               ELSE Caught(app, ErrorOf("Failed to fetch parts"))
  /\ HandlerFrame
  /\ UNCHANGED <<assembly_parts, now>>

\* the answers of the viewer
SelectedA == Obj(<<Field("id", "o1")>>)
SelectedB == Obj(<<Field("id", "o2"), Field("name", "Beam")>>)
ModelSelection(modelId, objects) ==
  Obj(<< Field("modelId", modelId), <<"objects", Arr(objects)>> >>)

ProjectAnswers ==
  {Answer(Obj(<<Field("name", "Tower")>>)), Answer(Obj(<<>>)), Answer(Undefined)}
  \cup {Failure(r) : r \in Reasons}

ModelsAnswers ==
  {Answer(Arr(<<Obj(<<Field("id", "m1"), Field("name", "tower.ifc")>>)>>)),
   Answer(Arr(<<Obj(<<Field("id", "m1")>>), Undefined>>)),
   Answer(Arr(<<>>)), Answer(Undefined), Answer(Obj(<<>>))}
  \cup {Failure(r) : r \in Reasons}

ObjectsAnswers ==
  {Answer(Arr(<<ModelSelection("m1", <<SelectedA>>)>>)),
   Answer(Arr(<<ModelSelection("m1", <<SelectedA, SelectedB>>)>>)),
   Answer(Arr(<<ModelSelection("m1", <<SelectedA>>), ModelSelection("m2", <<SelectedB>>)>>)),
   Answer(Arr(<<ModelSelection("m1", <<Undefined>>)>>)),
   Answer(Arr(<<Obj(<<Field("modelId", "m1")>>), Undefined>>)),
   Answer(Arr(<<>>)), Answer(Undefined), Answer(Prim("none"))}
  \cup {Failure(r) : r \in Reasons}

PropertyData(mark, guid) ==
  Obj(<< <<"properties", Obj(<<Field("Mark", mark), Field("GUID", guid)>>)>> >>)
CyclicData == Obj(<< <<"properties", Obj(<<Field("Mark", "B-1"), <<"Owner", Up>> >>)>> >>)

PropertiesAnswers ==
  {Answer(Arr(<<PropertyData("B-1", "gA"), PropertyData("B-2", "gB")>>)),
   Answer(Arr(<<PropertyData("B-1", "gA"), PropertyData("B-2", "gA")>>)),
   Answer(Arr(<<PropertyData("B-1", "gA")>>)),
   Answer(Arr(<<Obj(<<Field("Mark", "B-1")>>)>>)),
   Answer(Arr(<<CyclicData>>)),
   Answer(Arr(<<>>)), Answer(Undefined), Answer(Prim("none"))}
  \cup {Failure(r) : r \in Reasons}

AlternativeAnswers ==
  {Answer(Arr(<<PropertyData("B-1", "gA")>>)), Answer(Arr(<<CyclicData>>)),
   Answer(Undefined), Failure(ErrorOf("failed"))}

\* the list displayed before the selection changed
ShownBefore == {[id |-> "o9", guid |-> "gZ", mark |-> "Z-9"]}

InitSelection ==
  /\ \/ /\ assembly_parts = {}
        /\ installations = {}
        /\ deliveries = {}
        /\ part_logs = <<>>
     \/ /\ assembly_parts = SeedParts
        /\ installations = SeedInstallations
        /\ deliveries = SeedDeliveries
        /\ part_logs = SeedLogs
  /\ boltings = {}
  /\ now = 0
  /\ pc = "idle"
  /\ call = NoCall
  /\ outcome = "none"
  /\ logError = FALSE
  /\ prev = [call |-> NoCall, outcome |-> "none"]
  /\ ncalls = 0
  /\ read = NoRead
  /\ \E ready \in BOOLEAN, selection \in {Keys(FALSE, <<>>), Keys(TRUE, <<>>), Keys(TRUE, <<"o1">>)},
        modelId \in {ModelId, ""} :
       app = [op |-> "handleSelectionChange", pc |-> "start", ready |-> ready,
              selection |-> selection, modelId |-> modelId,
              modelName |-> IF modelId = "" THEN "" ELSE ModelName,
              parts |-> ShownBefore, outcome |-> "running", alerted |-> FALSE,
              projectNameFull |-> Undefined, modelNameMap |-> <<>>, selected |-> <<>>,
              m |-> 1, fullObjects |-> <<>>, collection |-> <<>>]

NextSelection ==
  \/ Start
  \/ \E response \in ProjectAnswers : GetProject(response)
  \/ \E response \in ModelsAnswers : GetModels(response)
  \/ \E response \in ObjectsAnswers : GetObjects(response)
  \/ \E response \in PropertiesAnswers, alternative \in AlternativeAnswers :
       GetObjectProperties(response, alternative)
  \/ FlattenObjects
  \/ \E t \in now..Min(now + 1, MaxClock), storeOk \in BOOLEAN : SyncToStore(t, storeOk)
  \/ \E storeOk \in BOOLEAN : LoadFromStore(storeOk)

SpecSelection == InitSelection /\ [][NextSelection]_vars

(***************************************************************************)
(* handleSelectionChange, STEP 3: the runtime ids sent to the viewer and    *)
(* the merge of its answer. The viewer answers getObjectProperties with one *)
(* property set per id asked for, in the order asked.                       *)
(***************************************************************************)
\* the place after an exponent with digits from j to c, else the place b
LiteralEndExponent(string, b, j, c) ==
  IF CharAt(string, b) \in {"e", "E"} /\ c > j THEN c ELSE b

LiteralEndSigned(string, b, j) == LiteralEndExponent(string, b, j, DigitsEnd(string, j))

\* digits from i to a, places to b: no literal when neither holds a digit
LiteralEndPlaces(string, i, a, b) ==
  IF a = i /\ b <= a + 1 THEN i
  ELSE LiteralEndSigned(string, b,
                        IF CharAt(string, b + 1) \in {"+", "-"} THEN b + 2 ELSE b + 1)

LiteralEndWhole(string, i, a) ==
  LiteralEndPlaces(string, i, a,
                   IF CharAt(string, a) = "." THEN DigitsEnd(string, a + 1) ELSE a)

\* the place after the decimal literal that starts at place i; i when none does
LiteralEnd(string, i) ==
  IF Len(string) >= i + 7 /\ SubSeq(string, i, i + 7) = "Infinity" THEN i + 8
  ELSE LiteralEndWhole(string, i, DigitsEnd(string, i))

SignEnd(string, start) ==
  IF CharAt(string, start) \in {"+", "-"} THEN start + 1 ELSE start

\* the literal from i to end is there and only white space follows it
WholeLiteral(string, i, end) == end > i /\ SkipWhiteSpace(string, end) > Len(string)

\* Number(string): 0 for white space only, the value of a decimal literal that
\* is the whole string, else NaN (literals with a radix prefix are not read)
StringToNumberFrom(string, start) ==
  IF start > Len(string) THEN Decimal(0, 0)
  ELSE IF WholeLiteral(string, SignEnd(string, start),
                       LiteralEnd(string, SignEnd(string, start)))
  THEN parseFloat(string)
  ELSE NaN

StringToNumber(string) == StringToNumberFrom(string, SkipWhiteSpace(string, 1))

\* Number(value); a field that is missing reads as undefined
Number(x) ==
  IF x = Undefined THEN NaN
  ELSE IF x \in {Prim(Zero), Prim(False)} THEN Decimal(0, 0)
  ELSE StringToNumber(StringOf(x))

\* Number.isFinite(n)
isFinite(n) == n.t = "number"

\* objects.map((o: any) => Number(o?.id)).filter((n: number) => Number.isFinite(n))
objectRuntimeIds(objects) ==
  SelectSeq([i \in 1..Len(objects) |-> Number(Get(objects[i], "id"))],
            LAMBDA n : isFinite(n))

\* the property set the viewer holds for the object of a runtime id
ViewerProperties(n) ==
  Obj(<< <<"properties", Obj(<<Field("Mark", "B-" \o ToString(n.m)),
                               Field("GUID", "g" \o ToString(n.m))>>)>> >>)

\* await viewer.getObjectProperties(currentModelId, objectRuntimeIds, ...)
getObjectProperties(ids) == Arr([k \in 1..Len(ids) |-> ViewerProperties(ids[k])])

\* the selected objects of a model: runtime ids 1 and 2, an id that is no
\* number, no id
SelectedObjects ==
  { Obj(<<Field("id", "1")>>), Obj(<<Field("id", "2"), Field("name", "Beam")>>),
    Obj(<<Field("id", "x7")>>), Obj(<<Field("name", "Column")>>) }

MaxObjects == 3

Selections ==
  UNION {[1..n -> SelectedObjects] : n \in 1..MaxObjects}

InitMerge ==
  /\ Idle
  /\ \E objects \in Selections :
       app = [op |-> "merge", objects |-> objects, done |-> FALSE]

\* STEP 3 for one model, and the flatten loop on what it merged
MergeProperties ==
  /\ app.op = "merge"
  /\ ~app.done
  /\ app' = [op |-> "merge", objects |-> app.objects, done |-> TRUE,
             fullObjects |-> Merged(app.objects,
                                    getObjectProperties(objectRuntimeIds(app.objects)))]
  /\ AppFrame

\* for (const obj of fullObjects) { flattenProps ... push }
CollectMerged ==
  /\ app.op = "merge"
  /\ app.done
  /\ "collection" \notin DOMAIN app
  /\ app' = [op |-> "merge", objects |-> app.objects, done |-> TRUE,
             fullObjects |-> app.fullObjects,
             collection |-> FlattenAll(app.fullObjects, 1, ModelId, ModelName,
                                       Prim(ProjectName))]
  /\ AppFrame

NextMerge == MergeProperties \/ CollectMerged

SpecMerge == InitMerge /\ [][NextMerge]_vars

(***************************************************************************)
(* handleSaveInstallation, handleSaveDelivery, handleSaveBolting: the save  *)
(* of a status for the parts displayed as selected. The App holds as        *)
(* modelId the id of the first loaded model; the parts displayed come from  *)
(* every loaded model, each stored under the model it belongs to.           *)
(***************************************************************************)
RECURSIVE SeqFromSet(_)
SeqFromSet(S) ==
  IF S = {} THEN <<>>
  ELSE LET x == CHOOSE y \in S : TRUE IN <<x>> \o SeqFromSet(S \ {x})

\* parts.filter(p => p.isSelected).map(p => p.id)
selectedIds(parts) ==
  LET selected == SeqFromSet({p \in parts : p.isSelected})
  IN [i \in 1..Len(selected) |-> selected[i].id]

\* dbParts.map(p => p.id)
dbIds(dbParts) == SeqFromSet({e.part.id : e \in dbParts})

\* the store after a selection over two loaded models was synced: one part of
\* model m1, two of model m2, one of them with the object id of the first
SyncedModels ==
  UpsertParts({}, [i \in 1..3 |->
    partsToUpsert(ProjectId, ProjectName, ModelId, ModelName,
                  << Part("o1", "gA", Props([Mark |-> "B-1", ModelId |-> "m1"])),
                     Part("o2", "gB", Props([Mark |-> "B-2", ModelId |-> "m2"])),
                     Part("o1", "gC", Props([Mark |-> "B-3", ModelId |-> "m2"])) >>[i],
                  0)]).rows

SaveData(mode) ==
  CASE mode = "installation" -> InstallationA
    [] mode = "delivery" -> DeliveryA
    [] mode = "bolts" -> BoltingA

InitSave ==
  /\ assembly_parts = SyncedModels
  /\ installations = {}
  /\ deliveries = {}
  /\ boltings = {}
  /\ part_logs = <<>>
  /\ now = 0
  /\ pc = "idle"
  /\ call = NoCall
  /\ outcome = "none"
  /\ logError = FALSE
  /\ prev = [call |-> NoCall, outcome |-> "none"]
  /\ ncalls = 0
  /\ read = NoRead
  /\ \E shown \in SUBSET SyncedModels, mode \in Modes :
       app = [op |-> "handleSave", pc |-> "start", mode |-> mode,
              data |-> SaveData(mode), modelId |-> ModelId,
              parts |-> {Displayed([part |-> p, installation |-> {}, delivery |-> {},
                                    bolting |-> {}, logs |-> <<>>]) : p \in shown},
              selectedIds |-> <<>>, partIds |-> <<>>, alerted |-> FALSE]

SaveAt(at) == app.op = "handleSave" /\ app.pc = at
Alert(a) == [a EXCEPT !.pc = "done", !.alerted = TRUE]

\* const selectedIds = ...; if (selectedIds.length === 0) { alert(...); return; }
handleSaveStart ==
  /\ SaveAt("start")
  /\ app' = IF Len(selectedIds(app.parts)) = 0 THEN Alert(app)
            ELSE [app EXCEPT !.pc = "getPartDbIds", !.selectedIds = selectedIds(app.parts)]
  /\ AppFrame

\* getPartDbIds: AssemblyAPI.getParts(projectId, modelId, objectIds)
getPartDbIds ==
  /\ SaveAt("getPartDbIds")
  /\ read.op = "none"
  /\ \E storeOk \in BOOLEAN :
       getParts(ProjectId, app.modelId, TRUE, app.selectedIds, storeOk)

\* const partIds = await getPartDbIds(selectedIds), or the catch
getPartDbIdsReturn ==
  /\ SaveAt("getPartDbIds")
  /\ read.op = "getParts"
  /\ app' = IF read.outcome = "throw" THEN Alert(app)
            ELSE [app EXCEPT !.pc = "save", !.partIds = dbIds(read.result)]
  /\ AppFrame

\* await AssemblyAPI.saveInstallation / saveDelivery / saveBolting(partIds, data, userName)
handleSaveInstallation ==
  /\ SaveAt("save") /\ app.mode = "installation" /\ ncalls = 0
  /\ \E storeOk \in BOOLEAN : saveInstallation(TRUE, app.partIds, app.data, "u1", storeOk)

handleSaveDelivery ==
  /\ SaveAt("save") /\ app.mode = "delivery" /\ ncalls = 0
  /\ \E storeOk \in BOOLEAN : saveDelivery(TRUE, app.partIds, app.data, "u1", storeOk)

handleSaveBolting ==
  /\ SaveAt("save") /\ app.mode = "bolts" /\ ncalls = 0
  /\ \E storeOk \in BOOLEAN : saveBolting(TRUE, app.partIds, app.data, "u1", storeOk)

\* the save has resolved (on to colorizeObjects, which catches its own errors,
\* and the reload) or it has thrown (the catch)
handleSaveReturn ==
  /\ SaveAt("save")
  /\ ncalls = 1
  /\ pc = "idle"
  /\ app' = IF outcome = "throw" THEN Alert(app) ELSE [app EXCEPT !.pc = "reload"]
  /\ AppFrame

\* await handleSelectionChange(selectedIds): the list is loaded again from the
\* store, or the handler alerts and leaves the list, or it rejects and the
\* catch of the save handler alerts
handleSaveReload(result) ==
  /\ SaveAt("reload")
  /\ app' = IF result = "returned"
            THEN [app EXCEPT !.pc = "done",
                             !.parts = {Displayed(Embedded(p)) : p \in
                                          {q \in assembly_parts :
                                             q.guid \in {d.guid : d \in app.parts}}}]
            ELSE Alert(app)
  /\ AppFrame

NextSave ==
  \/ handleSaveStart
  \/ getPartDbIds
  \/ getPartDbIdsReturn
  \/ handleSaveInstallation
  \/ handleSaveDelivery
  \/ handleSaveBolting
  \/ LogStep
  \/ handleSaveReturn
  \/ \E result \in {"returned", "alerted", "rejected"} : handleSaveReload(result)

SpecSave == InitSave /\ [][NextSave]_vars

(***************************************************************************)
(* The triggers of handleSelectionChange and its overlapping invocations.   *)
(* The viewer holds the selection; a change of it emits                      *)
(* viewer.selectionChanged, and pollSelection reads it every second. Each    *)
(* invocation of the handler is a frame that is resumed await by await;      *)
(* the viewer and the store answer every query.                              *)
(***************************************************************************)
MaxChanges == 2
MaxRuns == 2

\* the selections of the viewer: nothing, object 1, object 2
ViewerSelections == {<<>>, <<"1">>, <<"2">>}

\* currentIds.length !== lastIds.length || currentIds.some((id, i) => id !== lastIds[i])
changed(currentIds, lastIds) ==
  IF Len(currentIds) # Len(lastIds) THEN TRUE
  ELSE \E i \in 1..Len(currentIds) : currentIds[i] # lastIds[i]

\* the frame of an invocation that has passed the guards
Running(change) ==
  [pc |-> "getProject", change |-> change, objects |-> <<>>, collection |-> <<>>,
   shown |-> {}]
\* the frame of an invocation that has returned after setParts(shown)
Finished(frame, shown) == [frame EXCEPT !.pc = "done", !.shown = shown]

\* handleSelectionChangeRef.current(selection): the synchronous part of the
\* handler, run for the selection change it was told of
Invoke(a, selection, change) ==
  IF Len(selection) = 0
  THEN [a EXCEPT !.parts = {},
                 !.running = Append(@, Finished(Running(change), {})),
                 !.runs[change] = @ + 1]
  ELSE [a EXCEPT !.running = Append(@, Running(change)),
                 !.runs[change] = @ + 1]

InitApp ==
  /\ Idle
  /\ app = [op |-> "App", selection |-> <<>>, lastSelection |-> <<>>, events |-> <<>>,
            changes |-> 0, runs |-> [n \in 0..MaxChanges |-> 0], running |-> <<>>,
            parts |-> {}]

InApp == app.op = "App"

\* the user changes the selection in the viewer, which emits the event
Select(selection) ==
  /\ InApp
  /\ app.changes < MaxChanges
  /\ selection # app.selection
  /\ app' = [app EXCEPT !.selection = selection, !.changes = @ + 1,
                        !.events = Append(@, [selection |-> selection,
                                              change |-> app.changes + 1])]
  /\ AppFrame

\* if (event === 'viewer.selectionChanged') handleSelectionChangeRef.current(data.selection || [])
selectionChanged ==
  /\ InApp
  /\ Len(app.events) > 0
  /\ Len(app.running) < MaxRuns
  /\ app' = Invoke([app EXCEPT !.events = Tail(@)], Head(app.events).selection,
                   Head(app.events).change)
  /\ AppFrame

\* pollSelection: a failed getSelection is ignored
pollSelection ==
  /\ InApp
  /\ Len(app.running) < MaxRuns
  /\ changed(app.selection, app.lastSelection)
  /\ app' = Invoke([app EXCEPT !.lastSelection = app.selection], app.selection,
                   app.changes)
  /\ AppFrame

Resumed(i, at) == InApp /\ i \in 1..Len(app.running) /\ app.running[i].pc = at

\* await api.project.getProject()
ResumeGetProject(i) ==
  /\ Resumed(i, "getProject")
  /\ app' = [app EXCEPT !.running[i].pc = "getModels"]
  /\ AppFrame

\* await viewer.getModels()
ResumeGetModels(i) ==
  /\ Resumed(i, "getModels")
  /\ app' = [app EXCEPT !.running[i].pc = "getObjects"]
  /\ AppFrame

\* viewer.getObjects({ selected: true }) for the selection the viewer holds now
SelectedNow(selection) ==
  Answer(Arr(<<ModelSelection(ModelId,
                              [k \in 1..Len(selection) |->
                                 Obj(<<Field("id", selection[k])>>)])>>))

Selected(a, i, selectedWithBasic) ==
  IF Len(selectedWithBasic) = 0
  THEN [a EXCEPT !.parts = {}, !.running[i] = Finished(@, {})]
  ELSE [a EXCEPT !.running[i].pc = "getObjectProperties",
                 !.running[i].objects = selectedWithBasic[1].objects]

\* const selectedWithBasic = await getSelectedObjects(api)
ResumeGetObjects(i) ==
  /\ Resumed(i, "getObjects")
  /\ app' = Selected(app, i, getSelectedObjects(SelectedNow(app.selection)))
  /\ AppFrame

\* STEP 3 and the flatten loop
ResumeGetObjectProperties(i) ==
  /\ Resumed(i, "getObjectProperties")
  /\ app' = [app EXCEPT
               !.running[i].pc = "sync",
               !.running[i].collection =
                  FlattenAll(Merged(app.running[i].objects,
                                    getObjectProperties(
                                      objectRuntimeIds(app.running[i].objects))),
                             1, ModelId, ModelName, Prim(ProjectName))]
  /\ AppFrame

\* the batch syncParts is given
SyncBatch(collection, t) ==
  [k \in 1..Len(collection) |->
     partsToUpsert(ProjectId, ProjectName, ModelId, ModelName,
                   Part(collection[k].objectId, StringOf(collection[k].guid),
                        BagOf(collection[k].properties)), t)]

\* await AssemblyAPI.syncParts(...)
ResumeSync(i) ==
  /\ Resumed(i, "sync")
  /\ assembly_parts' = UpsertParts(assembly_parts,
                                   SyncBatch(app.running[i].collection, now)).rows
  /\ app' = [app EXCEPT !.running[i].pc = "load"]
  /\ UNCHANGED <<installations, deliveries, boltings, part_logs,
                 now, pc, call, outcome, logError, prev, ncalls, read>>

\* the list produced for a collection
Loaded(collection) ==
  {Displayed(Embedded(p)) : p \in
     {q \in assembly_parts :
        /\ q.project_id = ProjectId
        /\ q.guid \in {StringOf(collection[k].guid) : k \in 1..Len(collection)}}}

SetParts(a, i, shown) == [a EXCEPT !.parts = shown, !.running[i] = Finished(@, shown)]

\* await AssemblyAPI.getPartsByGuids(projectId, guids); setParts(...)
ResumeLoad(i) ==
  /\ Resumed(i, "load")
  /\ app' = SetParts(app, i, Loaded(app.running[i].collection))
  /\ AppFrame

NextApp ==
  \/ \E selection \in ViewerSelections : Select(selection)
  \/ selectionChanged
  \/ pollSelection
  \/ \E i \in 1..MaxRuns : ResumeGetProject(i)
  \/ \E i \in 1..MaxRuns : ResumeGetModels(i)
  \/ \E i \in 1..MaxRuns : ResumeGetObjects(i)
  \/ \E i \in 1..MaxRuns : ResumeGetObjectProperties(i)
  \/ \E i \in 1..MaxRuns : ResumeSync(i)
  \/ \E i \in 1..MaxRuns : ResumeLoad(i)

SpecApp == InitApp /\ [][NextApp]_vars

(***************************************************************************)
(* Properties.                                                             *)
(***************************************************************************)
\* a call is entered in this step
Entered == ncalls' = ncalls + 1

SaveOps == {"saveInstallation", "saveDelivery", "saveBolting"}
StatusOps == SaveOps \cup {"bulkUpdate", "deleteData"}

\* the rows of assembly_parts without their updated_at column
WithoutUpdatedAt(rows) == {[r EXCEPT !.updated_at = 0] : r \in rows}

\* syncParts is called again with the arguments of the call before, which succeeded
SyncRepeated ==
  /\ Entered
  /\ call.op = "syncParts"
  /\ outcome = "ok"
  /\ call'.op = "syncParts"
  /\ call'.parts = call.parts
  /\ call'.projectId = call.projectId
  /\ call'.modelId = call.modelId

\* C1 as stated: syncParts with a batch R called twice in succession leaves every
\* table as the first call left it.
C1_SyncTwiceIdentical ==
  [][SyncRepeated => tables' = tables]_vars

\* C1, amended: syncParts with a batch R called twice in succession leaves every
\* table as the first call left it, but for the updated_at column of the rows of
\* R, which holds the time of the second call.
C1_SyncTwiceUpToUpdatedAt ==
  [][SyncRepeated =>
       /\ WithoutUpdatedAt(assembly_parts') = WithoutUpdatedAt(assembly_parts)
       /\ <<installations, deliveries, boltings, part_logs>>' =
            <<installations, deliveries, boltings, part_logs>>]_vars

\* a batch of two parts was synced twice, both calls succeeded, the second later
C1_Witness ==
  /\ call.op = "syncParts"
  /\ outcome = "ok"
  /\ prev.call.op = "syncParts"
  /\ prev.outcome = "ok"
  /\ prev.call.parts = call.parts
  /\ Len(call.parts) = 2
  /\ prev.call.at < call.at
  /\ \A r \in assembly_parts : r.updated_at = call.at

\* the status table of a kind
StatusTable(mode) ==
  CASE mode = "installation" -> installations
    [] mode = "delivery" -> deliveries
    [] mode = "bolts" -> boltings

\* the status records of a kind owned by a part
Owned(mode, partId) == {r \in StatusTable(mode) : r.part_id = partId}

\* C2: for every part and every status kind there is at most one status record
\* of that kind owned by the part, after any sequence of saveInstallation,
\* saveDelivery, saveBolting, bulkUpdate and deleteData calls.
C2_AtMostOneStatusPerPart ==
  \A mode \in Modes : \A r1, r2 \in StatusTable(mode) :
    r1.part_id = r2.part_id => r1 = r2

\* a part that owned an installation was saved again, by a call after a save
C2_Witness ==
  /\ outcome = "ok"
  /\ call.op \in {"saveInstallation", "bulkUpdate"}
  /\ call.mode = "installation"
  /\ prev.call.op = "saveInstallation"
  /\ prev.outcome = "ok"
  /\ Range(prev.call.partIds) \cap Range(call.partIds) # {}
  /\ \A id \in Range(call.partIds) : Cardinality(Owned("installation", id)) = 1

\* the row syncParts sends for part i of the call entered in this step
SentRow(i) ==
  partsToUpsert(call'.projectId, ProjectName, call'.modelId, ModelName,
                call'.parts[i], call'.at)

\* C3 as stated: assembly_parts holds at most one row per guid; a synced part
\* whose guid is stored overwrites that row column by column, and a synced part
\* whose guid is not stored creates a row, whatever object_id other rows hold.
\* (A batch the store is reachable for, naming no guid twice.)
C3_UpsertKeyedByGuid ==
  [][(/\ Entered
      /\ call'.op = "syncParts"
      /\ call'.storeOk
      /\ ~HasDuplicates([i \in 1..Len(call'.parts) |-> call'.parts[i].guid]))
     => /\ \A a, b \in assembly_parts' : a.guid = b.guid => a = b
        /\ \A i \in 1..Len(call'.parts) :
             \E r \in assembly_parts' :
               /\ r.guid = call'.parts[i].guid
               /\ r = [id |-> r.id] @@ SentRow(i)
               /\ \A old \in assembly_parts : old.guid = r.guid => old.id = r.id]_vars

\* the tables of the status operations
StatusOpEntered == Entered /\ call'.op \in StatusOps

\* C4: saveInstallation, saveDelivery, saveBolting, bulkUpdate and deleteData
\* called with an empty or missing list of part ids fail with an error and write
\* nothing: no status row and no log row is created, changed or deleted.
C4_NoPartsThrowsWithoutWrites ==
  [][(StatusOpEntered /\ (~call'.given \/ Len(call'.partIds) = 0))
     => /\ outcome' = "throw"
        /\ pc' = "idle"
        /\ tables' = tables]_vars

\* deleteData was called without a list on a store that holds status records
C4_Witness ==
  /\ call.op = "deleteData"
  /\ ~call.given
  /\ outcome = "throw"
  /\ installations # {}
  /\ part_logs # <<>>

\* the payload of a save of the given kind misses a required field
MissesRequired(mode, data) ==
  CASE mode = "installation" ->
         Len(data.installers) = 0 \/ data.date \in {"", Null} \/ data.method \in {"", Null}
    [] mode = "delivery" -> data.vehicle \in {"", Null} \/ data.date \in {"", Null}
    [] mode = "bolts" -> data.installer \in {"", Null} \/ data.date \in {"", Null}

\* C5: a save whose payload misses a required field of its kind (installation:
\* installers, date, method; delivery: vehicle, date; bolting: installer, date)
\* aborts the whole batch before any write: no status record and no log entry
\* is written for any part of the batch.
C5_InvalidPayloadAbortsBeforeWrites ==
  [][(/\ Entered
      /\ call'.op \in SaveOps \cup {"bulkUpdate"}
      /\ call'.mode \in Modes
      /\ MissesRequired(call'.mode, call'.data))
     => /\ outcome' = "throw"
        /\ pc' = "idle"
        /\ tables' = tables]_vars

\* a delivery without a date was refused for two stored parts
C5_Witness ==
  /\ call.op = "saveDelivery"
  /\ call.partIds = <<1, 2>>
  /\ call.data.vehicle = "truck"
  /\ call.data.date = Null
  /\ {1, 2} \subseteq PartIdsOf(assembly_parts)
  /\ outcome = "throw"

\* the verb the log rows of a call of that kind carry
KindVerb(op, mode) ==
  IF op = "deleteData"
  THEN CASE mode = "installation" -> "Eemaldati paigaldusest"
         [] mode = "delivery" -> "Eemaldati tarnest"
         [] mode = "bolts" -> "Eemaldati poltide nimekirjast"
  ELSE CASE mode = "installation" -> "Paigaldatud"
         [] mode = "delivery" -> "Tarnitud"
         [] mode = "bolts" -> "Poldid pingutatud"

\* the primary write of the call c is in the store
PrimaryWritten(c) ==
  IF c.op = "deleteData"
  THEN \A id \in Range(c.partIds) : Owned(c.mode, id) = {}
  ELSE \A id \in Range(c.partIds) :
         \E r \in Owned(c.mode, id) : r.created_by = c.userName

\* the rows from position n + 1 on are one row per id of the call c, in the order
\* of its ids, each with the verb of its kind and the actor of the call
LoggedPerId(logs, n, c) ==
  /\ Len(logs) = n + Len(c.partIds)
  /\ \A i \in 1..Len(c.partIds) :
       /\ logs[n + i].part_id = c.partIds[i]
       /\ logs[n + i].action[1] = KindVerb(c.op, c.mode)
       /\ logs[n + i].user_name = c.userName

\* C6: in saveInstallation, saveDelivery, saveBolting and deleteData the primary
\* write comes first and the audit log is written only after it succeeded: the
\* step that enters a call appends no log row, log rows are appended only for a
\* call whose primary write is in the store, and an accepted log insert appends
\* exactly one row per id of partIds, carrying the action of the kind and the
\* actor of the call.
C6_LogsAfterPrimaryWrite ==
  [][/\ Entered => part_logs' = part_logs
     /\ part_logs' # part_logs =>
          /\ pc = "logs"
          /\ outcome = "pending"
          /\ call.op \in StatusOps
          /\ call.storeOk
          /\ PrimaryWritten(call)
     /\ (pc = "logs" /\ ~logError') =>
          /\ SubSeq(part_logs', 1, Len(part_logs)) = part_logs
          /\ LoggedPerId(part_logs', Len(part_logs), call)]_vars

\* an installation of two parts was saved and then logged, one row per part
C6_Witness ==
  /\ call.op = "saveInstallation"
  /\ call.partIds = <<1, 2>>
  /\ call.userName = "u2"
  /\ outcome = "ok"
  /\ ~logError
  /\ Len(part_logs) >= 2
  /\ LoggedPerId(part_logs, Len(part_logs) - 2, call)
  /\ PrimaryWritten(call)

\* C7: when the audit-log insert fails after a successful status write or
\* delete, the operation still completes successfully and the status write is
\* not rolled back: the status records are as the primary write left them.
C7_LogFailureIsSwallowed ==
  [][(pc = "logs" /\ logError')
     => /\ outcome' = "ok"
        /\ pc' = "idle"
        /\ <<assembly_parts, installations, deliveries, boltings>>' =
             <<assembly_parts, installations, deliveries, boltings>>
        /\ PrimaryWritten(call)']_vars

\* a bolting was saved for two parts, its log insert was rejected, the call resolved
C7_Witness ==
  /\ call.op = "saveBolting"
  /\ call.partIds = <<1, 2>>
  /\ logError
  /\ outcome = "ok"
  /\ \A id \in {1, 2} : \E r \in boltings : r.part_id = id /\ r.created_by = call.userName

\* the rows a save sends name a part twice or a part that is not stored
SaveRejectedByConstraint(c) ==
  \/ HasDuplicates(c.partIds)
  \/ \E id \in Range(c.partIds) : id \notin PartIdsOf(assembly_parts)

\* the store rejects the primary write of the call c
PrimaryRejected(c) ==
  CASE c.op = "syncParts" ->
         /\ Len(c.parts) > 0
         /\ \/ ~c.storeOk
            \/ ~UpsertParts(assembly_parts,
                            [i \in 1..Len(c.parts) |->
                               partsToUpsert(c.projectId, ProjectName, c.modelId,
                                             ModelName, c.parts[i], c.at)]).ok
    [] c.op \in SaveOps ->
         /\ c.given /\ Len(c.partIds) > 0
         /\ ~MissesRequired(c.mode, c.data)
         /\ (~c.storeOk \/ SaveRejectedByConstraint(c))
    [] c.op = "deleteData" ->
         /\ c.given /\ Len(c.partIds) > 0
         /\ c.mode \in Modes
         /\ ~c.storeOk
    [] OTHER -> FALSE

\* C8: when the store rejects the primary write of saveInstallation,
\* saveDelivery, saveBolting, deleteData or syncParts, the operation throws to
\* the caller, no row of any table is changed for any part of the batch, and no
\* audit-log row is appended.
C8_RejectedWriteThrowsUnchanged ==
  [][(Entered /\ PrimaryRejected(call'))
     => /\ outcome' = "throw"
        /\ pc' = "idle"
        /\ tables' = tables]_vars

\* the store rejected a bolting upsert for two stored parts that own other records
C8_Witness ==
  /\ call.op = "saveBolting"
  /\ call.partIds = <<1, 2>>
  /\ ~call.storeOk
  /\ ~MissesRequired("bolts", call.data)
  /\ {1, 2} \subseteq PartIdsOf(assembly_parts)
  /\ outcome = "throw"
  /\ installations # {}

\* C9: after a successful deleteData(partIds, mode) no part in partIds owns a
\* status record of the kind given by mode, while the status records of the
\* other two kinds, those of the parts outside partIds and all assembly_parts
\* rows are unchanged; an unknown mode throws before any write.
C9_DeleteRemovesOnlyItsKind ==
  [][/\ (/\ Entered
         /\ call'.op = "deleteData"
         /\ call'.given /\ Len(call'.partIds) > 0)
        => IF call'.mode \notin Modes
           THEN outcome' = "throw" /\ pc' = "idle" /\ tables' = tables
           ELSE call'.storeOk =>
                  /\ outcome' = "pending"
                  /\ assembly_parts' = assembly_parts
                  /\ \A m \in Modes :
                       StatusTable(m)' =
                         IF m = call'.mode
                         THEN {r \in StatusTable(m) :
                                 r.part_id \notin Range(call'.partIds)}
                         ELSE StatusTable(m)
     /\ (pc = "logs" /\ call.op = "deleteData")
        => /\ outcome' = "ok"
           /\ <<assembly_parts, installations, deliveries, boltings>>' =
                <<assembly_parts, installations, deliveries, boltings>>]_vars

\* the installation of part 1 was deleted: part 2 keeps its installation, part 1
\* its delivery
C9_Witness ==
  /\ call.op = "deleteData"
  /\ call.mode = "installation"
  /\ call.partIds = <<1>>
  /\ outcome = "ok"
  /\ Owned("installation", 1) = {}
  /\ Owned("installation", 2) # {}
  /\ Owned("delivery", 1) # {}

\* the columns of a status record equal the payload of a save of its kind
HoldsPayload(mode, r, data) ==
  CASE mode = "installation" ->
         r.installers = data.installers /\ r.date = data.date /\ r.method = data.method
    [] mode = "delivery" ->
         /\ r.vehicle = data.vehicle /\ r.date = data.date
         /\ r.arrival_time = (IF data.arrivalTime = "" THEN Null ELSE data.arrivalTime)
         /\ r.unloading_time = (IF data.unloadingTime = "" THEN Null ELSE data.unloadingTime)
    [] mode = "bolts" -> r.installer = data.installer /\ r.date = data.date

\* C10: a status record is created on the first save for a part and overwritten
\* on later saves: once a save of kind k for ids with a payload and an actor has
\* written, each part in ids owns exactly one record of kind k, whose domain
\* fields equal that payload and whose created_by equals that actor, whatever
\* an earlier save wrote.
C10_SaveOverwrites ==
  (/\ call.op \in SaveOps \cup {"bulkUpdate"}
   /\ call.mode \in Modes
   /\ outcome \in {"pending", "ok"})
  => \A id \in Range(call.partIds) :
       /\ Cardinality(Owned(call.mode, id)) = 1
       /\ \A r \in Owned(call.mode, id) :
            HoldsPayload(call.mode, r, call.data) /\ r.created_by = call.userName

\* a delivery saved by u1 was saved again by u2 with another payload
C10_Witness ==
  /\ call.op = "saveDelivery"
  /\ outcome = "ok"
  /\ call.userName = "u2"
  /\ call.data = DeliveryB
  /\ prev.call.op = "saveDelivery"
  /\ prev.outcome = "ok"
  /\ prev.call.userName = "u1"
  /\ prev.call.data = DeliveryA
  /\ prev.call.partIds = call.partIds
  /\ \A id \in Range(call.partIds) :
       \E r \in deliveries : r.part_id = id /\ r.vehicle = "van" /\ r.created_by = "u2"

\* C11: the audit log is append-only: across any sequence of AssemblyAPI
\* operations every part_logs row that exists before a step exists unchanged,
\* at its place, after it; rows are only added, at the end.
C11_LogsAppendOnly ==
  [][/\ Len(part_logs') >= Len(part_logs)
     /\ SubSeq(part_logs', 1, Len(part_logs)) = part_logs]_vars

\* the log held rows of two earlier saves when a delete was logged after them
C11_Witness ==
  /\ call.op = "deleteData"
  /\ outcome = "ok"
  /\ ~logError
  /\ Len(part_logs) > Len(SeedLogs)
  /\ SubSeq(part_logs, 1, Len(SeedLogs)) = SeedLogs
  /\ part_logs[Len(part_logs)].action[1] = KindVerb("deleteData", call.mode)

MutatingOps == StatusOps \cup {"syncParts"}

\* a call that sent a primary statement to the store resolves in this step
Resolves ==
  /\ outcome' = "ok"
  /\ \/ Entered /\ call'.op = "syncParts" /\ Len(call'.parts) > 0
     \/ pc = "logs"

\* C12 as stated: every successful mutating operation (syncParts,
\* saveInstallation, saveDelivery, saveBolting, bulkUpdate, deleteData) appends
\* at least one part_logs row.
C12_EveryMutationLogs ==
  [][(Resolves /\ call'.op \in MutatingOps)
     => Len(part_logs') > Len(part_logs)]_vars

\* a step of getParts, getPartsByGuids or getStatistics
ReadStepTaken == read' # read

\* C13: the read operations getParts, getPartsByGuids and getStatistics never
\* write: a step of any of them leaves every row of assembly_parts,
\* installations, deliveries, boltings and part_logs unchanged and adds no log row.
C13_ReadsNeverWrite ==
  [][ReadStepTaken => tables' = tables]_vars

\* a fetch by guid returned a part with its installation and its log rows, from
\* a store that holds exactly the rows it held before
C13_Witness ==
  /\ read.op = "getPartsByGuids"
  /\ read.outcome = "ok"
  /\ \E e \in read.result : e.installation # {} /\ Len(e.logs) = 2
  /\ ncalls = 0
  /\ part_logs = SeedLogs
  /\ assembly_parts = SeedParts

\* flattenProps has returned for the object at hand
Resolved == app.op = "flattenProps" /\ app.done /\ app.out.ok

\* the object at hand under another session handle
WithHandle(obj, handle) == Obj(handle \o SubSeq(obj.e, 2, Len(obj.e)))

\* C14: the identity resolved by flattenProps does not depend on the session
\* handle whenever an identity is found: an object that resolves to a guid other
\* than the synthetic one resolves to that same guid under every other handle.
C14_IdentityIgnoresHandle ==
  Resolved =>
    \A h \in Handles :
      LET other == flattenProps(WithHandle(app.obj, h), app.modelId)
      IN app.out.guid # RuntimeGuid(app.modelId, app.out.objectId)
           => other.ok /\ other.guid = app.out.guid

\* an object with handle o2 resolved to the GUID of its property tree, as it
\* does with handle o1
C14_Witness ==
  /\ Resolved
  /\ app.out.objectId = "o2"
  /\ app.out.guid = Prim("gC")
  /\ flattenProps(WithHandle(app.obj, <<Field("id", "o1")>>), app.modelId).objectId = "o1"
  /\ flattenProps(WithHandle(app.obj, <<Field("id", "o1")>>), app.modelId).guid = Prim("gC")

\* flattenProps has ended for the object at hand, by a return or an exception
Ended == app.op = "flattenProps" /\ app.done

DirectAliases == <<"guid", "GUID", "GlobalId", "guidIfc">>

\* the values of the non-empty direct identity fields, in alias order
DirectValues(obj) ==
  SelectSeq([i \in 1..4 |-> Get(obj, DirectAliases[i])], Truthy)

\* the names of an identity property, in the letter cases the objects use
IdentityNames == {"GUID", "GlobalId", "guidIfc", "IFC GUID", "guid", "globalid", "Guid"}

\* a key or a name/value pair of the tree names an identity and holds a value
RECURSIVE HasIdentityKey(_)
HasIdentityKey(x) ==
  /\ x.t \in {"obj", "arr"}
  /\ \/ Get(x, "name").v \in IdentityNames /\ Truthy(Get(x, "value"))
     \/ \E i \in 1..Len(x.e) :
          \/ x.e[i][1] \in IdentityNames /\ Truthy(x.e[i][2])
          \/ HasIdentityKey(x.e[i][2])

\* no identity field on the object, in its property tree or on its ReferenceObject
NoIdentityField(obj) ==
  /\ DirectValues(obj) = <<>>
  /\ ~HasIdentityKey(Get(obj, "properties"))
  /\ ~Truthy(Get(Get(obj, "ReferenceObject"), "guidIfc"))

\* C15 as stated: flattenProps always returns a non-empty guid and never fails,
\* for every input object and model id; when no identity field is found on the
\* object, in its property tree or on its ReferenceObject, the guid is exactly
\* "runtime-" + modelId + "-" + objectId.
C15_AlwaysReturnsGuid ==
  Ended =>
    /\ app.out.ok
    /\ Truthy(app.out.guid)
    /\ NoIdentityField(app.obj)
         => app.out.guid = RuntimeGuid(app.modelId, app.out.objectId)

\* the tree holds an object that refers to an object enclosing it
\* C16 as stated: for every property tree that contains a self-referential node
\* the recursive flattening in flattenProps terminates and returns a finite
\* flat map: it stops descending that branch rather than failing.
C16_CycleSafe ==
  (Ended /\ HasCycle(Get(app.obj, "properties"))) => app.out.ok

\* C17: when the raw object has a non-empty direct identity field (guid, GUID,
\* GlobalId or guidIfc), flattenProps returns the value of a direct field as the
\* identity, whatever its shape and whatever GUID-named keys or IFC-shaped
\* strings the property tree and the ReferenceObject hold.
C17_DirectFieldWins ==
  (Resolved /\ DirectValues(app.obj) # <<>>)
    => app.out.guid \in Range(DirectValues(app.obj))

\* an object whose only direct field is a GUID that is a plain word, with another
\* GUID in its tree and one on its ReferenceObject, resolved to the plain word
C17_Witness ==
  /\ Resolved
  /\ DirectValues(app.obj) = <<Prim("Beam-7")>>
  /\ ResultGet(app.out.properties, "GUID") = Prim("gC")
  /\ Get(Get(app.obj, "ReferenceObject"), "guidIfc") = Prim("gR")
  /\ app.out.guid = Prim("Beam-7")

\* C18 as stated: the strategies are tried in the order direct fields, recognized
\* nested containers, key-name match in the flattened properties, synthetic
\* fallback: an object without direct identity fields that has
\* ReferenceObject.guidIfc = A and a property keyed GUID with a value B other
\* than A in its property tree resolves to A.
C18_ReferenceObjectBeforeKeyName ==
  (/\ Resolved
   /\ DirectValues(app.obj) = <<>>
   /\ Truthy(Get(Get(app.obj, "ReferenceObject"), "guidIfc"))
   /\ Truthy(ResultGet(app.out.properties, "GUID"))
   /\ ResultGet(app.out.properties, "GUID") # Get(Get(app.obj, "ReferenceObject"), "guidIfc"))
  => app.out.guid = Get(Get(app.obj, "ReferenceObject"), "guidIfc")

\* C19 as stated: when several direct identity fields of an object hold
\* different values, the first one in the alias order guid, GUID, GlobalId,
\* guidIfc is the identity.
C19_FirstAliasWins ==
  (Resolved /\ DirectValues(app.obj) # <<>>)
    => app.out.guid = DirectValues(app.obj)[1]

\* the spellings of the aliases GUID and GlobalId in other letter cases
AliasSpellings == {"GUID", "Guid", "guid", "GlobalId", "globalid"}

\* C20 as stated: a property whose key (last path segment) matches an identity
\* alias in any letter case supplies the identity when no higher tier yields
\* one.
C20_KeyNameAnyCase ==
  (/\ Resolved
   /\ DirectValues(app.obj) = <<>>
   /\ ~Truthy(Get(Get(app.obj, "ReferenceObject"), "guidIfc"))
   /\ \E k \in AliasSpellings : Truthy(ResultGet(app.out.properties, k)))
  => \E k \in AliasSpellings :
       /\ Truthy(ResultGet(app.out.properties, k))
       /\ app.out.guid = Prim(StringOf(ResultGet(app.out.properties, k)))


(***************************************************************************)
(* The shapes of C21, stated on the string alone.                          *)
(***************************************************************************)
IfcAlphabet == CharsOf("0123456789")
               \cup CharsOf("ABCDEFGHIJKLMNOPQRSTUVWXYZ")
               \cup CharsOf("abcdefghijklmnopqrstuvwxyz") \cup {"_", "$"}
HexGroup(s, n) == Len(s) = n /\ CharsOf(s) \subseteq CharsOf("0123456789abcdefABCDEF")
Has22OfAlphabet(s) == Len(s) = 22 /\ CharsOf(s) \subseteq IfcAlphabet
Is8_4_4_4_12(s) ==
  \E a \in 1..Len(s) :
     /\ CharAt(s, a) = "-" /\ HexGroup(SubSeq(s, 1, a - 1), 8)
     /\ \E b \in (a + 1)..Len(s) :
          /\ CharAt(s, b) = "-" /\ HexGroup(SubSeq(s, a + 1, b - 1), 4)
          /\ \E c \in (b + 1)..Len(s) :
               /\ CharAt(s, c) = "-" /\ HexGroup(SubSeq(s, b + 1, c - 1), 4)
               /\ \E d \in (c + 1)..Len(s) :
                    /\ CharAt(s, d) = "-" /\ HexGroup(SubSeq(s, c + 1, d - 1), 4)
                    /\ HexGroup(SubSeq(s, d + 1, Len(s)), 12)

\* the string leaves of a tree in the order of Object.entries, depth first
RECURSIVE StringLeaves(_, _)
RECURSIVE StringLeavesFrom(_, _, _)
StringLeavesFrom(o, path, i) ==
  IF i > Len(o.e) THEN <<>>
  ELSE LET key == o.e[i][1]
           value == o.e[i][2]
           here == IF path = "" THEN key ELSE path \o "." \o key
       IN (IF IsString(value) THEN <<[path |-> here, key |-> key, value |-> value.v]>>
           ELSE StringLeaves(value, here))
          \o StringLeavesFrom(o, path, i + 1)
StringLeaves(o, path) ==
  IF o.t \in {"obj", "arr"} THEN StringLeavesFrom(o, path, 1) ELSE <<>>

DeepSearched == app.op = "deepSearch" /\ app.done
Searched == DeepSearched /\ Truthy(app.props) /\ ~HasCycle(app.props)

\* the type the search gave to the string at a path: IFC, MS, Unknown, or
\* none when the string was not taken as a candidate
TypeAt(path) ==
  LET hits == {i \in 1..Len(app.out.guidsFound) : app.out.guidsFound[i].path = path}
  IN IF hits = {} THEN "none" ELSE app.out.guidsFound[CHOOSE i \in hits : TRUE].type

\* C21: in a finished deepSearchPropertiesForGUID every string of the
\* properties is classified IFC exactly when it has 22 characters, all of
\* [0-9A-Za-z_$], MS exactly when it is 8-4-4-4-12 hexadecimal groups joined by
\* hyphens, and neither otherwise; no string is both, and "Beam" is neither.
C21_PatternClassification ==
  Searched =>
    LET leaves == StringLeaves(Get(app.props, "0"), "")
    IN \A i \in 1..Len(leaves) :
         LET s == leaves[i].value
             type == TypeAt(leaves[i].path)
         IN /\ type = "IFC" <=> Has22OfAlphabet(s)
            /\ type = "MS" <=> Is8_4_4_4_12(s)
            /\ ~(Has22OfAlphabet(s) /\ Is8_4_4_4_12(s))
            /\ s = "Beam" => type \in {"Unknown", "none"}

\* a finished search that met an IFC string, an MS string and the word Beam
C21_Witness ==
  /\ Searched
  /\ \E g \in Range(app.out.guidsFound) : g.type = "IFC"
  /\ \E g \in Range(app.out.guidsFound) : g.type = "MS"

\* a finished search over a near miss that was classified as neither
C21_WitnessNearMiss ==
  /\ Searched
  /\ \E l \in Range(StringLeaves(Get(app.props, "0"), "")) :
        l.value \in NearMisses /\ l.value # "" /\ TypeAt(l.path) = "Unknown"

FirstOf(leaves, Shape(_)) ==
  leaves[CHOOSE i \in 1..Len(leaves) :
           Shape(leaves[i].value) /\ \A j \in 1..(i - 1) : ~Shape(leaves[j].value)].value

\* C22: a finished deepSearchPropertiesForGUID returns the first IFC-shaped
\* string in traversal order if there is one, otherwise the first MS-shaped
\* one; a string that is a candidate by its key name only is returned only
\* when the properties hold no IFC- or MS-shaped string.
C22_IfcThenMsThenKeyName ==
  Searched /\ app.out.found =>
    LET leaves == StringLeaves(Get(app.props, "0"), "")
        values == {leaves[i].value : i \in 1..Len(leaves)}
    IN IF \E s \in values : Has22OfAlphabet(s)
       THEN app.out.guid = FirstOf(leaves, Has22OfAlphabet)
       ELSE IF \E s \in values : Is8_4_4_4_12(s)
       THEN app.out.guid = FirstOf(leaves, Is8_4_4_4_12)
       ELSE \E i \in 1..Len(leaves) :
              leaves[i].value = app.out.guid /\ isGUIDKey(leaves[i].key)

\* an MS-shaped string came first and an IFC-shaped one, met later, was
\* returned
C22_Witness ==
  /\ Searched
  /\ app.out.found
  /\ Len(app.out.guidsFound) = 2
  /\ app.out.guidsFound[1].type = "MS"
  /\ app.out.guidsFound[2].type = "IFC"
  /\ app.out.guid = app.out.guidsFound[2].value

(***************************************************************************)
(* The leaves of a property object, as C23 and C24 speak of them.          *)
(***************************************************************************)
\* the primitive values of a tree in the order of Object.entries, depth
\* first; arrays are entered element by element when intoArrays is set
RECURSIVE Leaves(_, _, _)
RECURSIVE LeavesFrom(_, _, _, _)
LeavesFrom(o, path, i, intoArrays) ==
  IF i > Len(o.e) THEN <<>>
  ELSE LET key == o.e[i][1]
           value == o.e[i][2]
           here == IF path = "" THEN key ELSE path \o "." \o key
       IN (IF value.t = "prim" THEN <<[path |-> here, key |-> key, value |-> value]>>
           ELSE Leaves(value, here, intoArrays))
          \o LeavesFrom(o, path, i + 1, intoArrays)
Leaves(o, path, intoArrays) ==
  IF o.t = "obj" \/ (o.t = "arr" /\ intoArrays) THEN LeavesFrom(o, path, 1, intoArrays)
  ELSE <<>>

Properties == Get(app.obj, "properties")
FlattenedObject == Resolved /\ Properties.t = "obj" /\ ~HasCycle(Properties)

\* C23: after flattenProps of an object of nested objects, every leaf is in
\* the flat map under its full dotted path, and each bare key holds the value
\* of its first occurrence in traversal order, whatever that value is (an
\* empty string included).
C23_BareKeyFirstWriterWins ==
  FlattenedObject =>
    LET leaves == Leaves(Properties, "", FALSE)
    IN \A i \in 1..Len(leaves) :
         /\ ResultGet(app.out.properties, leaves[i].path) = leaves[i].value
         /\ (\A j \in 1..(i - 1) : leaves[j].key # leaves[i].key)
              => ResultGet(app.out.properties, leaves[i].key) = leaves[i].value

\* C24: flattenProps enters arrays element by element at every depth: a leaf
\* inside an array nested in the property object is in the flat map under its
\* bare key, and an identity-named key there supplies the identity.
C24_NestedArraysTraversed ==
  FlattenedObject =>
    LET leaves == Leaves(Properties, "", TRUE)
    IN /\ \A i \in 1..Len(leaves) :
            (Truthy(leaves[i].value) /\ \A j \in 1..(i - 1) : leaves[j].key # leaves[i].key)
              => ResultGet(app.out.properties, leaves[i].key) = leaves[i].value
       /\ (\E i \in 1..Len(leaves) :
             leaves[i].key \in {"GUID", "GlobalId", "guidIfc", "IFC GUID"} /\ Truthy(leaves[i].value))
            => app.out.guid # RuntimeGuid(app.modelId, app.out.objectId)

(***************************************************************************)
(* The attribute mapping as C25, C26 and C27 state it.                     *)
(***************************************************************************)
Mapped == app.op = "partsToUpsert" /\ app.done
Bag == app.part.properties
NonEmpty(v) == v \notin {Null, ""}

AliasChain ==
  [ mark     |-> <<"Tekla_Assembly.Cast_unit_Mark", "Mark", "Name">>,
    name     |-> <<"Name", "Tekla_Assembly.Cast_unit_Mark">>,
    type     |-> <<"Type", "Tekla_Assembly.Cast_unit_type">>,
    assembly |-> <<"Tekla_Assembly.Assembly", "Assembly", "Assembly Code">>,
    phase    |-> <<"Phase", "Assembly Phase">>,
    profile  |-> <<"Profile", "Section">>,
    material |-> <<"Material", "Grade">>,
    weight   |-> <<"Tekla_Assembly.Cast_unit_weight", "Weight">>,
    length   |-> <<"Length">> ]

StatedDefault ==
  [mark |-> "N/A", type |-> "Unknown", name |-> "", assembly |-> "", phase |-> "",
   profile |-> "", material |-> ""]

HoldsNone(chain) == \A i \in 1..Len(chain) : ~NonEmpty(Bag[chain[i]])
FirstNonEmpty(chain) ==
  Bag[chain[CHOOSE i \in 1..Len(chain) :
              NonEmpty(Bag[chain[i]]) /\ \A j \in 1..(i - 1) : ~NonEmpty(Bag[chain[j]])]]

\* C25: in the row syncParts builds, each text field holds the first
\* non-empty alias of its chain, or its default when the chain holds none:
\* N/A for mark, Unknown for type, the empty string for name, assembly, phase,
\* profile and material; weight and length are null when their chain holds
\* none.
C25_FirstAliasOrDefault ==
  Mapped =>
    /\ \A f \in DOMAIN StatedDefault :
         app.out[f] = IF HoldsNone(AliasChain[f]) THEN StatedDefault[f]
                      ELSE FirstNonEmpty(AliasChain[f])
    /\ \A f \in {"weight", "length"} :
         HoldsNone(AliasChain[f]) => app.out[f] = NullValue

\* what the numeric texts of NumberTexts are as numbers, and the texts that
\* are no numbers; a number followed by other characters is in neither
AsNumber ==
  [x \in {Zero, "0", "12.5", "12.50", " 12.5", "1e3", "1.5e-2", "-0.5", ".5",
          "+7", "7", "007", "1."} |->
     CASE x \in {Zero, "0"} -> [t |-> "number", m |-> 0, s |-> 0]
       [] x \in {"12.5", "12.50", " 12.5"} -> [t |-> "number", m |-> 125, s |-> 1]
       [] x = "1e3" -> [t |-> "number", m |-> 1000, s |-> 0]
       [] x = "1.5e-2" -> [t |-> "number", m |-> 15, s |-> 3]
       [] x = "-0.5" -> [t |-> "number", m |-> -5, s |-> 1]
       [] x = ".5" -> [t |-> "number", m |-> 5, s |-> 1]
       [] x \in {"+7", "7", "007"} -> [t |-> "number", m |-> 7, s |-> 0]
       [] x = "1." -> [t |-> "number", m |-> 1, s |-> 0]]
NoNumbers == {Null, "", "abc", "kg12", ".", "-", "e5", " ", "NaN"}

\* the value the row's weight is read from
WeightSource == IF Falsy(Bag["Tekla_Assembly.Cast_unit_weight"]) THEN Bag["Weight"]
                ELSE Bag["Tekla_Assembly.Cast_unit_weight"]

Coerced(source, number) ==
  /\ source \in NoNumbers => number = NullValue
  /\ source \in DOMAIN AsNumber => number = AsNumber[source]

\* C26: the row is always built, and its weight and length are null, not
\* zero, when the value they are read from is empty, absent or no number;
\* a numeric text such as "12.5" gives the number 12.5.
C26_NumericCoercion ==
  Mapped =>
    /\ Coerced(WeightSource, app.out.weight)
    /\ Coerced(Bag["Length"], app.out.length)

\* a row built from the weight "12.5"
C26_Witness ==
  /\ Mapped
  /\ Bag["Weight"] = "12.5"
  /\ app.out.weight = [t |-> "number", m |-> 125, s |-> 1]

\* a row built from a length that is no number
C26_WitnessNull == Mapped /\ Bag["Length"] = "abc" /\ app.out.length = NullValue

\* the keys a named column of the row is read from
PromotedKeys ==
  {"Project", "ModelId", "FileName"} \cup UNION {Range(AliasChain[f]) : f \in DOMAIN AliasChain}

\* C27: every property of the part that no named column is read from is in
\* the row's extra data, under its own key and with its own value.
C27_NothingDropped ==
  Mapped =>
    \A k \in PropKeys \ PromotedKeys :
      Bag[k] # Null =>
        /\ app.out.tekla_data.t = "object"
        /\ k \in DOMAIN app.out.tekla_data.fields
        /\ app.out.tekla_data.fields[k] = Bag[k]

(***************************************************************************)
(* C28: the statistics of a store at rest.                                 *)
(***************************************************************************)
\* a getStatistics that returned, all four queries answered, while the
\* mutating call beside it took no step since the first query
StatisticsAtRest ==
  /\ read.op = "getStatistics"
  /\ read.outcome = "ok"
  /\ read.answered
  /\ read.began = [ncalls |-> ncalls, pc |-> pc]

InScope(part) == part.project_id = read.projectId /\ part.model_id = read.modelId
OwnedInScope(rows) ==
  Cardinality({r \in rows : \E p \in assembly_parts : p.id = r.part_id /\ InScope(p)})

FetchStepTaken ==
  /\ read' # read
  /\ read'.op \in {"getPartsByGuids", "getParts"}
  /\ read'.outcome = "ok"

RowsOf(rows, partId) == {r \in rows : r.part_id = partId}
\* a status record without the keys that tie it to its part
Content(rows) == {[f \in DOMAIN r \ {"id", "part_id"} |-> r[f]] : r \in rows}
\* the parts the call of a step is over
BatchOf(c) == IF "partIds" \in DOMAIN c THEN Range(c.partIds) ELSE {}

\* a step leaves a status table alone, or leaves on every part of its batch
\* the same record and touches no other part
AllOrNone(before, after, batch) ==
  LET touched == {id \in {r.part_id : r \in before \cup after} :
                    RowsOf(before, id) # RowsOf(after, id)}
  IN \/ touched = {}
     \/ /\ touched \subseteq batch
        /\ \A a, b \in batch : Content(RowsOf(after, a)) = Content(RowsOf(after, b))

\* C30: a record fetch reads one state of the store, and every step of a save
\* over parts P takes the store from a state with the old status record on
\* every part of P to one with the new record on every part of P: the fetch
\* sees the new record on all of P or on none, and no record in between.
C30_NoHalfAppliedBatch ==
  [][ /\ FetchStepTaken => \A e \in read'.result : e = Embedded(e.part)
      /\ AllOrNone(installations, installations', BatchOf(call'))
      /\ AllOrNone(deliveries, deliveries', BatchOf(call'))
      /\ AllOrNone(boltings, boltings', BatchOf(call')) ]_vars

\* a fetch answered between the upsert of a save over two parts and its log
\* rows: both parts are seen with the new installation
C30_Witness ==
  /\ read.op \in {"getPartsByGuids", "getParts"}
  /\ read.outcome = "ok"
  /\ pc = "logs"
  /\ call.op = "saveInstallation"
  /\ Cardinality(BatchOf(call)) = 2
  /\ {e.part.id : e \in read.result} = BatchOf(call)
  /\ \A e \in read.result :
        /\ e = Embedded(e.part)
        /\ Content(e.installation) = {[installers |-> call.data.installers,
                                        date |-> call.data.date,
                                        method |-> call.data.method,
                                        created_by |-> call.userName]}
        /\ call.data.method = InstallationB.method

(***************************************************************************)
(* C29: the handler and the answers of the viewer.                         *)
(***************************************************************************)
Handled == app.op = "handleSelectionChange" /\ app.pc = "done"

\* C29: whatever getProject, getModels, getObjects and getObjectProperties
\* answer (empty, partial or malformed data, or a failure),
\* handleSelectionChange does not reject to its caller.
C29_NeverRejects ==
  app.op = "handleSelectionChange" => app.outcome # "rejected"

(***************************************************************************)
(* C37: what syncParts leaves alone.                                       *)
(***************************************************************************)
SyncEntered == Entered /\ call'.op = "syncParts"

\* C37: syncParts changes only assembly_parts: no installations, deliveries,
\* boltings or part_logs row is changed by it, and every stored part keeps its
\* row (same id, same guid) also when it is synced again under its guid with
\* another object id, so its status records and its log history stay its own.
C37_SyncChangesOnlyParts ==
  [][SyncEntered =>
       /\ <<installations, deliveries, boltings, part_logs>>' =
            <<installations, deliveries, boltings, part_logs>>
       /\ \A old \in assembly_parts :
            \E r \in assembly_parts' : r.id = old.id /\ r.guid = old.guid]_vars

\* the part stored as o2 under guid gB, which owns an installation, was synced
\* again as o1 after the part that held o1 had moved to another model
C37_Witness ==
  /\ call.op = "syncParts"
  /\ outcome = "ok"
  /\ call.parts = <<Part("o1", "gB", BagMark)>>
  /\ installations = SeedInstallations
  /\ part_logs = SeedLogs
  /\ \E r \in assembly_parts :
        /\ r.guid = "gB"
        /\ r.object_id = "o1"
        /\ r \notin SeedParts
        /\ \E old \in SeedParts : old.guid = "gB" /\ old.id = r.id /\ old.object_id = "o2"
        /\ Owned("installation", r.id) # {}

(***************************************************************************)
(* C38: the four counts of one getStatistics call.                         *)
(***************************************************************************)
StatisticsReturned == read.op = "getStatistics" /\ read.outcome = "ok"

\* C38: the installed, delivered and bolted counts a getStatistics call
\* returns never exceed the total it returns, also when sync, save or delete
\* operations complete between its four count queries.
C38_CountsWithinTotal ==
  StatisticsReturned =>
    /\ read.result.installed <= read.result.total
    /\ read.result.delivered <= read.result.total
    /\ read.result.bolted <= read.result.total

(***************************************************************************)
(* C35, C36: the guards and the order of the steps of the handler.         *)
(***************************************************************************)
NotReady == app.op = "handleSelectionChange" /\ ~app.ready
SelectionEmpty ==
  /\ app.op = "handleSelectionChange"
  /\ app.ready
  /\ NoKeys(app.selection.given, app.selection.keys)

\* C35: while api, projectId or projectName is unset, handleSelectionChange
\* returns at once: it makes no viewer query and no store write and leaves the
\* displayed parts unchanged; with an empty selection it clears the displayed
\* parts, again without a query or a store write.
C35_GuardsBeforeAnyQuery ==
  [][/\ NotReady =>
          /\ app' = Return(app)
          /\ tables' = tables
     /\ SelectionEmpty =>
          /\ app' = Return([app EXCEPT !.parts = {}])
          /\ tables' = tables]_vars

\* the handler has returned without being ready; the list shown is the old one
C35_Witness ==
  /\ NotReady
  /\ Handled
  /\ app.outcome = "returned"
  /\ app.selection.keys # <<>>
  /\ app.parts = ShownBefore

\* the handler has returned on an empty selection; the list shown is empty
C35_WitnessEmpty ==
  /\ SelectionEmpty
  /\ Handled
  /\ app.outcome = "returned"
  /\ app.parts = {}
  /\ assembly_parts = SeedParts

\* the guids resolved for the batch collected
BatchGuids(a) == {StringOf(a.collection[i].guid) : i \in 1..Len(a.collection)}

\* C36: handleSelectionChange loads from the store only after syncParts of
\* the batch collected has succeeded; every part it then displays has a guid
\* of that batch; when syncParts fails or nothing was collected no load
\* happens and the displayed parts stay as they were.
C36_LoadOnlyAfterSync ==
  [][/\ (app.op = "handleSelectionChange" /\ app'.pc = "load") =>
          /\ app.pc = "sync"
          /\ app'.collection = app.collection
          /\ \A g \in BatchGuids(app) : \E r \in assembly_parts' : r.guid = g
     /\ (Awaiting("load") /\ app'.parts # app.parts) =>
          /\ app'.outcome = "returned"
          /\ \A d \in app'.parts : d.guid \in BatchGuids(app)
     /\ ((Awaiting("sync") \/ Awaiting("flatten")) /\ app'.pc = "done") =>
          /\ app'.parts = app.parts
          /\ tables' = tables]_vars

\* a batch of two parts was synced into a store that held them, then loaded
C36_Witness ==
  /\ Handled
  /\ app.outcome = "returned"
  /\ Len(app.collection) = 2
  /\ {d.guid : d \in app.parts} = {"gA", "gB"}
  /\ \A r \in assembly_parts : r.guid \in {"gA", "gB"}

\* the sync of a collected batch failed: the handler is done, the alert was
\* shown and the list displayed is the old one
C36_WitnessFailed ==
  /\ Handled
  /\ app.alerted
  /\ Len(app.collection) >= 1
  /\ app.parts = ShownBefore

(***************************************************************************)
(* C32: which property set each selected object is merged with.            *)
(***************************************************************************)
MergedAll == app.op = "merge" /\ "collection" \in DOMAIN app
IdOf(obj) == Number(Get(obj, "id"))

\* object idx carries the property set of its own runtime id and the guid in
\* it, or, without a finite id, no property set of the viewer at all
OwnProperties(idx) ==
  IF isFinite(IdOf(app.objects[idx]))
  THEN /\ Get(app.fullObjects[idx], "properties")
            = Get(ViewerProperties(IdOf(app.objects[idx])), "properties")
       /\ app.collection[idx].guid = Prim("g" \o ToString(IdOf(app.objects[idx]).m))
  ELSE Get(app.fullObjects[idx], "properties") = Undefined

\* C32: for every selection, object i of a model is merged with the property
\* set the viewer returned for its own runtime id, and its identity is
\* resolved from that set, also when some selected objects have no finite
\* numeric id.
C32_OwnPropertiesMerged ==
  MergedAll =>
    /\ Len(app.collection) = Len(app.objects)
    /\ \A idx \in 1..Len(app.objects) : OwnProperties(idx)

(***************************************************************************)
(* C33: what a save that reports nothing has stored.                        *)
(***************************************************************************)
SavedQuietly == app.op = "handleSave" /\ app.pc = "done" /\ ~app.alerted

\* the part displayed as d holds a status record of the kind saved
HasStatus(d, mode) ==
  \E p \in assembly_parts : p.guid = d.guid /\ Owned(mode, p.id) # {}

\* C33: after handleSaveInstallation, handleSaveDelivery or handleSaveBolting
\* has completed without an alert, every part displayed as selected holds a
\* status record of that kind, whichever loaded model it belongs to.
C33_SavedForEverySelectedPart ==
  SavedQuietly => \A d \in app.parts : d.isSelected => HasStatus(d, app.mode)

(***************************************************************************)
(* C31, C34: overlapping invocations and their triggers.                    *)
(***************************************************************************)
AllFinished ==
  /\ InApp
  /\ Len(app.running) >= 1
  /\ \A i \in 1..Len(app.running) : app.running[i].pc = "done"

\* C31: once all overlapping invocations of handleSelectionChange have
\* finished, the displayed parts list is the one produced by the invocation
\* started last: an invocation started earlier never overwrites the result of
\* one started later.
C31_LatestInvocationWins ==
  AllFinished => app.parts = app.running[Len(app.running)].shown

\* C34: one change of the viewer selection makes handleSelectionChange run
\* at most once, though both the viewer.selectionChanged event and the poll
\* can detect it.
C34_OneRunPerChange ==
  InApp => \A n \in 1..MaxChanges : app.runs[n] <= 1

====
